---- MODULE Spec2Model ----
(***************************************************************************)
(* A model of chain-mock (src/src/mock.ts): the proxy tree of a chain      *)
(* mock, its per-path state, call recording, synchronous and await-time    *)
(* value resolution, and the clear/reset lifecycle.                        *)
(*                                                                         *)
(* Objects of the program are modelled with their identity:                *)
(*   - a PathState is a record; the map pathStates holds the states that   *)
(*     the mock can look up by key, and heldState is the state object that *)
(*     the caller's root proxy closes over once a reset has replaced the   *)
(*     map's root entry;                                                   *)
(*   - a Node (proxy) is [path, id, own]: the path its handler closes      *)
(*     over, the identity of the proxy object (an allocation name          *)
(*     <<generation, key, n>>), and where its closed-over state lives      *)
(*     ("map": pathStates[Join(path)], "held": heldState).                 *)
(***************************************************************************)
EXTENDS Naturals, Sequences, FiniteSets, TLC

\* ------------------------------------------------------------- input sets

\* JavaScript's undefined.
Undef == "undefined"

\* Values handed to the value setters (undefined included).
Values == {Undef, "v1", "v2"}

\* Custom implementations: one returning a value, one throwing.
NoImpl == [kind |-> "undefined", v |-> Undef]
Impls == {[kind |-> "return", v |-> "v1"], [kind |-> "throw", v |-> "e1"]}

\* Custom implementations that invoke the mock they are set on, at the root
\* or at a, with arguments of their own, and then return a value:
\* () => { m.path('y'); return 'v1' }.
ReentrantImpls ==
  {[kind |-> "call", v |-> "v1", path |-> Q, args |-> <<"y">>] : Q \in {<<>>, <<"a">>}}

\* The promises custom implementations make, named by the invocation that
\* made them, and a thenable object that is no Promise (a chain-mock Node of
\* another mock, for one).
PromiseNames == <<"p1", "p2", "p3", "p4", "p5", "p6", "p7", "p8">>
Thenable == "thenable"

\* Custom implementations that return something awaitable:
\* () => new Promise(..), a new pending promise at every invocation, and
\* () => thenable.
AwaitableImpls == {[kind |-> "promise", v |-> Undef], [kind |-> "return", v |-> Thenable]}

\* What a pending promise settles with.
Settlements == {[type |-> "fulfilled", value |-> "v1"], [type |-> "rejected", value |-> "e1"]}

\* Resolved values that are Nodes of the mock itself, m.a and m.b, and the
\* paths of these Nodes.
NodeValues == {"m.a", "m.b"}
NodePath(v) == IF v = "m.a" THEN <<"a">> ELSE <<"b">>

\* Mock names.
MockNames == {"named"}

\* The paths of a two-level tree in which the nested path ends in a name that
\* is a top-level path too.
AllPaths == {<<>>, <<"a">>, <<"b">>, <<"a", "b">>}

\* ------------------------------------------------------------------ bounds

\* Longest one-shot queue a setter may build.
MaxQueue == 2

\* Exploration of the synchronous behaviour (return values, implementations).
MaxConfigsSync == 2
MaxOrderSync == 3
MaxResetsSync == 1

\* Exploration of the await-time behaviour (resolved and rejected values).
MaxConfigsAsync == 2
MaxOrderAsync == 2
MaxResetsAsync == 1

\* Exploration of the whole interface (every setter, clear and reset).
MaxConfigs == 1
MaxOrder == 2
MaxResets == 1

\* Exploration of chain invocations for the matchers; the longest list of
\* expected argument arrays and the largest n given to a matcher.
MaxOrderMatch == 5
MaxResetsMatch == 1
MaxExpected == 3
MaxNth == 3

\* Exploration of the process-wide registry: the number of mocks created.
MaxMocks == 2
MaxConfigsBulk == 1
MaxOrderBulk == 3

\* Exploration of reentrant invocations.
MaxConfigsReentrant == 2
MaxOrderReentrant == 3

\* Exploration of the invocation-order numbers.
MaxConfigsOrder == 1
MaxOrderOrder == 3
MaxResetsOrder == 1

\* Exploration of two mocks side by side.
MaxConfigsPair == 1
MaxOrderPair == 2
MaxResetsPair == 1

\* Exploration of the promises implementations return.
MaxConfigsPromise == 1
MaxOrderPromise == 3
MaxResetsPromise == 1

\* Exploration of the jobs of an await.
MaxConfigsAwait == 2
MaxAwaits == 2

\* What an exploration draws its inputs from: the paths the caller configures,
\* the paths it accesses, invokes and awaits, the paths it clears and resets,
\* the argument lists of invocations, the number of setter calls, the largest
\* invocation-order number handed out and the number of resets.
SyncScope ==
  [cfgPaths |-> AllPaths, callPaths |-> {<<>>, <<"a", "b">>},
   lifePaths |-> {<<>>}, args |-> {<<"x">>},
   maxConfigs |-> MaxConfigsSync, maxOrder |-> MaxOrderSync, maxResets |-> MaxResetsSync]
AsyncScope ==
  [cfgPaths |-> {<<>>, <<"a">>, <<"a", "b">>}, callPaths |-> {<<"a">>, <<"a", "b">>},
   lifePaths |-> {<<>>}, args |-> {<<"x">>},
   maxConfigs |-> MaxConfigsAsync, maxOrder |-> MaxOrderAsync, maxResets |-> MaxResetsAsync]
FullScope ==
  [cfgPaths |-> {<<>>, <<"a">>}, callPaths |-> {<<>>, <<"a", "b">>},
   lifePaths |-> {<<>>, <<"a">>}, args |-> {<<"x">>, <<"y">>},
   maxConfigs |-> MaxConfigs, maxOrder |-> MaxOrder, maxResets |-> MaxResets]

\* Chain invocations m.s1(a1)...sk(ak) along chainPaths, clear and reset.
MatchScope ==
  [chainPaths |-> {<<"a">>, <<"a", "b">>},
   lifePaths |-> {<<>>}, args |-> {<<"x">>, <<"y">>},
   maxOrder |-> MaxOrderMatch, maxResets |-> MaxResetsMatch]

\* Several mocks, clearAllMocks() and resetAllMocks().
BulkScope ==
  [cfgPaths |-> {<<>>, <<"a">>}, callPaths |-> {<<>>, <<"a">>},
   args |-> {<<"x">>},
   maxConfigs |-> MaxConfigsBulk, maxOrder |-> MaxOrderBulk]

\* Implementations that invoke the mock, invocation, await and clear.
ReentrantScope ==
  [cfgPaths |-> {<<>>, <<"a">>}, callPaths |-> {<<>>, <<"a">>},
   lifePaths |-> {<<>>}, args |-> {<<"x">>},
   maxConfigs |-> MaxConfigsReentrant, maxOrder |-> MaxOrderReentrant]

\* Awaits of Nodes whose resolved values are values or Nodes.
AwaitScope ==
  [cfgPaths |-> {<<>>, <<"a">>, <<"b">>}, callPaths |-> {<<"a">>, <<"b">>},
   maxConfigs |-> MaxConfigsAwait]

\* Implementations that return promises, which settle at any time after.
PromiseScope ==
  [cfgPaths |-> {<<>>, <<"a">>}, callPaths |-> {<<>>, <<"a">>},
   lifePaths |-> {<<>>}, args |-> {<<"x">>},
   maxConfigs |-> MaxConfigsPromise, maxOrder |-> MaxOrderPromise,
   maxResets |-> MaxResetsPromise]

\* Several mocks, reentrant invocations, clear and reset, alone and in bulk.
OrderScope ==
  [cfgPaths |-> {<<>>}, callPaths |-> {<<>>, <<"a">>},
   lifePaths |-> {<<>>}, args |-> {<<"x">>},
   maxConfigs |-> MaxConfigsOrder, maxOrder |-> MaxOrderOrder,
   maxResets |-> MaxResetsOrder]

\* Two mocks, each configured, invoked, awaited, cleared and reset.
PairScope ==
  [cfgPaths |-> {<<>>}, callPaths |-> {<<>>, <<"a">>},
   lifePaths |-> {<<>>}, args |-> {<<"x">>},
   maxConfigs |-> MaxConfigsPair, maxOrder |-> MaxOrderPair,
   maxResets |-> MaxResetsPair]

\* ----------------------------------------------------------------- state

VARIABLES
  mocks,                  \* per mock created: its maps and the caller's root reference
  invocationCallCounter,  \* the process-wide invocation-order counter
  fresh,                  \* per mock: a mock created at its last mockReset() (at
                          \* its creation before that) and given the same operations
  yielded,                \* per mock and path, the Node identities the caller was
                          \* given for the path since the last mockReset()
  invoked,                \* per mock and path, the argument lists of the invocations
                          \* the caller made since the last mockClear() or mockReset()
  chained,                \* per mock, the chain invocations m.s1(a1)...sk(ak) the caller
                          \* made since the last mockClear() or mockReset()
  nConfigs,               \* number of setter calls made (bounds the exploration)
  scope,                  \* the inputs and bounds of the exploration (never changes)
  mockRegistry,           \* the process-wide set of root Nodes (by mock)
  created                 \* the mocks chainMock() made since the last resetAllMocks()

vars == <<mocks, invocationCallCounter, fresh, yielded, invoked, chained,
          nConfigs, scope, mockRegistry, created>>

\* ------------------------------------------------------------- helpers

\* path.join('.')
RECURSIVE Join(_)
Join(path) ==
  IF path = <<>> THEN ""
  ELSE IF Len(path) = 1 THEN path[1]
  ELSE Join(SubSeq(path, 1, Len(path) - 1)) \o "." \o path[Len(path)]

\* path.slice(0, -1)
Front(path) == SubSeq(path, 1, Len(path) - 1)

\* f with key k set to v (Map.set).
MapSet(f, k, v) == [x \in DOMAIN f \cup {k} |-> IF x = k THEN v ELSE f[x]]

\* The empty Map.
EmptyMap == [x \in {} |-> 0]

\* A just-created PathState.
NewState ==
  [ calls |-> <<>>, results |-> <<>>, contexts |-> <<>>, instances |-> <<>>,
    invocationCallOrder |-> <<>>, settledResults |-> <<>>,
    resolvedValue |-> Undef, resolvedValueQueue |-> <<>>,
    rejectedValue |-> Undef, rejectedValueQueue |-> <<>>,
    returnValue |-> Undef, returnValueQueue |-> <<>>,
    implementation |-> NoImpl, implementationOnce |-> <<>>,
    mockName |-> "chainMock()" ]

\* No Node (undefined where a Node could stand).
NoNode == [path |-> <<>>, id |-> <<>>, own |-> "none"]

\* What an operation gives back to the caller.
Returned(kind, v, node) == [kind |-> kind, v |-> v, node |-> node]

\* ------------------------------------------------ getOrCreatePathState / Proxy

\* getOrCreatePathState(path): the map with a state for the path's key.
GetOrCreatePathState(mk, path) ==
  LET key == Join(path) IN
  IF key \in DOMAIN mk.pathStates THEN mk
  ELSE [mk EXCEPT !.pathStates = MapSet(@, key, NewState)]

\* A getOrCreateProxy that never looks in the cache: a new proxy at every
\* access (what the cache is there to prevent).
GetOrCreateProxyNoCache(mk, path) ==
  LET key   == Join(path)
      mk1   == GetOrCreatePathState(mk, path)
      n     == (IF key \in DOMAIN mk.allocs THEN mk.allocs[key] ELSE 0) + 1
      proxy == [path |-> path, id |-> <<mk.gen, key, n>>, own |-> "map"]
  IN [mk   |-> [mk1 EXCEPT !.proxyCache = MapSet(@, key, proxy),
                           !.allocs = MapSet(@, key, n)],
      node |-> proxy]

\* getOrCreateProxy(path): the cached proxy of the path's key, or a new proxy
\* object over the key's state, entered in the cache.
GetOrCreateProxy(mk, path) ==
  LET key == Join(path) IN
  IF key \in DOMAIN mk.proxyCache
  THEN [mk |-> mk, node |-> mk.proxyCache[key]]
  ELSE LET mk1   == GetOrCreatePathState(mk, path)
           n     == (IF key \in DOMAIN mk.allocs THEN mk.allocs[key] ELSE 0) + 1
           proxy == [path |-> path, id |-> <<mk.gen, key, n>>, own |-> "map"]
       IN [mk   |-> [mk1 EXCEPT !.proxyCache = MapSet(@, key, proxy),
                                !.allocs = MapSet(@, key, n)],
           node |-> proxy]

\* The get trap for a property that is no reserved name: the child proxy.
GetChild(mk, node, prop) == GetOrCreateProxy(mk, Append(node.path, prop))

\* Property accesses names[1], names[2], ... starting at node.
RECURSIVE Nav(_, _, _)
Nav(mk, node, names) ==
  IF names = <<>> THEN [mk |-> mk, node |-> node]
  ELSE LET r == GetChild(mk, node, Head(names))
       IN Nav(r.mk, r.node, Tail(names))

\* The state object a proxy's handler closes over.
StateOf(mk, node) ==
  IF node.own = "held" THEN mk.heldState ELSE mk.pathStates[Join(node.path)]

\* mk with the state object of a reference replaced by s.  A reference is
\* [own |-> "held"] or [own |-> "map", key |-> k].
RefOf(node) == [own |-> node.own, key |-> Join(node.path)]
MapRef(key) == [own |-> "map", key |-> key]
Deref(mk, ref) == IF ref.own = "held" THEN mk.heldState ELSE mk.pathStates[ref.key]
SetRef(mk, ref, s) ==
  IF ref.own = "held" THEN [mk EXCEPT !.heldState = s]
  ELSE [mk EXCEPT !.pathStates[ref.key] = s]

\* A mock as chainMock() returns it: the root proxy and its state.
NewMock ==
  LET mk0 == [pathStates |-> EmptyMap, proxyCache |-> EmptyMap, allocs |-> EmptyMap,
              gen |-> 0, rootRef |-> NoNode, heldState |-> NewState,
              pending |-> {}, awaits |-> <<>>]
      r   == GetOrCreateProxy(mk0, <<>>)
  IN [r.mk EXCEPT !.rootRef = r.node]

\* ------------------------------------------------------ configuration setters

\* The caller's view of a path's registry and configuration: the state of the
\* Node that property access from a reference reaches.
UpdateState(mk, node, s) == SetRef(mk, RefOf(node), s)

\* Every setter ends with `return getOrCreateProxy(path)`.
ReturnProxy(mk, node) ==
  LET r == GetOrCreateProxy(mk, node.path)
  IN [mk |-> r.mk, ret |-> Returned("node", Undef, r.node)]

MockResolvedValue(mk, node, value) ==
  ReturnProxy(UpdateState(mk, node, [StateOf(mk, node) EXCEPT !.resolvedValue = value]), node)

MockResolvedValueOnce(mk, node, value) ==
  ReturnProxy(UpdateState(mk, node,
    [StateOf(mk, node) EXCEPT !.resolvedValueQueue = Append(@, value)]), node)

MockRejectedValue(mk, node, error) ==
  ReturnProxy(UpdateState(mk, node, [StateOf(mk, node) EXCEPT !.rejectedValue = error]), node)

MockRejectedValueOnce(mk, node, error) ==
  ReturnProxy(UpdateState(mk, node,
    [StateOf(mk, node) EXCEPT !.rejectedValueQueue = Append(@, error)]), node)

MockReturnValue(mk, node, value) ==
  ReturnProxy(UpdateState(mk, node, [StateOf(mk, node) EXCEPT !.returnValue = value]), node)

MockReturnValueOnce(mk, node, value) ==
  ReturnProxy(UpdateState(mk, node,
    [StateOf(mk, node) EXCEPT !.returnValueQueue = Append(@, value)]), node)

MockImplementation(mk, node, fn) ==
  ReturnProxy(UpdateState(mk, node, [StateOf(mk, node) EXCEPT !.implementation = fn]), node)

MockImplementationOnce(mk, node, fn) ==
  ReturnProxy(UpdateState(mk, node,
    [StateOf(mk, node) EXCEPT !.implementationOnce = Append(@, fn)]), node)

MockName(mk, node, name) ==
  ReturnProxy(UpdateState(mk, node, [StateOf(mk, node) EXCEPT !.mockName = name]), node)

GetMockName(mk, node) == StateOf(mk, node).mockName

\* ------------------------------------------------------------------ apply

NoRef == [own |-> "none", key |-> ""]

\* hasConfiguredValue(s)
HasConfiguredValue(s) ==
  \/ Len(s.implementationOnce) > 0
  \/ s.implementation # NoImpl
  \/ Len(s.returnValueQueue) > 0
  \/ s.returnValue # Undef

\* An apply trap without the bare-name lookup.
MethodStateNone(mk, path) == NoRef

\* The bare-name lookup: pathStates.get(path[path.length - 1]).
MethodState(mk, path) ==
  IF Len(path) > 0
     /\ path[Len(path)] \in DOMAIN mk.pathStates
     /\ HasConfiguredValue(mk.pathStates[path[Len(path)]])
  THEN MapRef(path[Len(path)])
  ELSE NoRef

\* The walk from currentPath up to the root, stopping at the first state of
\* the map with synchronous behaviour.
RECURSIVE WalkUpSync(_, _)
WalkUpSync(mk, currentPath) ==
  LET checkKey == Join(currentPath) IN
  IF checkKey \in DOMAIN mk.pathStates /\ HasConfiguredValue(mk.pathStates[checkKey])
  THEN MapRef(checkKey)
  ELSE IF Len(currentPath) = 0 THEN NoRef
  ELSE WalkUpSync(mk, Front(currentPath))

\* foundState of apply: the bare name first, then the walk.
FoundSyncState(mk, path) ==
  IF MethodState(mk, path) # NoRef THEN MethodState(mk, path)
  ELSE WalkUpSync(mk, path)

\* useState = foundState ?? state
UseSyncState(mk, node) ==
  IF FoundSyncState(mk, node.path) # NoRef THEN FoundSyncState(mk, node.path)
  ELSE RefOf(node)

\* An apply trap that numbers the invocations of each state on their own.
RecordCallOwnCounter(mk, node, thisArg, args, callOrder) ==
  UpdateState(mk, node,
    [StateOf(mk, node) EXCEPT !.calls = Append(@, args),
                              !.invocationCallOrder = Append(@, Len(@) + 1),
                              !.contexts = Append(@, thisArg)])

\* state.mock.calls.push(args) and its two companions.
RecordCall(mk, node, thisArg, args, callOrder) ==
  UpdateState(mk, node,
    [StateOf(mk, node) EXCEPT !.calls = Append(@, args),
                              !.invocationCallOrder = Append(@, callOrder),
                              !.contexts = Append(@, thisArg)])

\* state.mock.results.push(..) and state.mock.settledResults.push(..)
PushResult(mk, node, result, settled) ==
  UpdateState(mk, node,
    [StateOf(mk, node) EXCEPT !.results = Append(@, result),
                              !.settledResults = Append(@, settled)])

Result(type, value) == [type |-> type, value |-> value]

\* A choice that prefers the persistent implementation to the one-shot ones.
PickImplPersistentFirst(u) ==
  IF u.implementation # NoImpl THEN u.implementation
  ELSE IF Len(u.implementationOnce) > 0 THEN Head(u.implementationOnce)
  ELSE NoImpl

\* useState.implementationOnce.shift() ?? useState.implementation
PickImpl(u) ==
  IF Len(u.implementationOnce) > 0 /\ Head(u.implementationOnce) # NoImpl
  THEN Head(u.implementationOnce)
  ELSE u.implementation

\* The queue after shift().
Shift(q) == IF Len(q) > 0 THEN Tail(q) ELSE q

\* A one-shot return value taken before the persistent one, and not removed
\* from the queue.
TakeReturnValueKeep(u) ==
  IF Len(u.returnValueQueue) > 0
  THEN [found |-> TRUE, value |-> Head(u.returnValueQueue), state |-> u]
  ELSE IF u.returnValue # Undef
  THEN [found |-> TRUE, value |-> u.returnValue, state |-> u]
  ELSE [found |-> FALSE, value |-> Undef, state |-> u]

\* The return value of a state without implementation: the queue's first
\* entry, shifted out, else the persistent value, else none.
TakeReturnValue(u) ==
  IF Len(u.returnValueQueue) > 0
  THEN [found |-> TRUE, value |-> Head(u.returnValueQueue),
        state |-> [u EXCEPT !.returnValueQueue = Tail(@)]]
  ELSE IF u.returnValue # Undef
  THEN [found |-> TRUE, value |-> u.returnValue, state |-> u]
  ELSE [found |-> FALSE, value |-> Undef, state |-> u]

\* What an invocation leaves for the record: its invocation-order number, the
\* path invoked, its arguments and the result entries pushed for it.
LogEntry(node, args, callOrder, result, settled) ==
  [order |-> callOrder, path |-> node.path, args |-> args,
   result |-> result, settled |-> settled]

\* An apply trap without the catch block: a throwing implementation leaves
\* the invocation without result.
ApplyNoCatch(mk, node, thisArg, args, callOrder) ==
  LET mk1  == RecordCall(mk, node, thisArg, args, callOrder)
      uref == UseSyncState(mk1, node)
      impl == PickImpl(Deref(mk1, uref))
      mk2  == SetRef(mk1, uref,
                [Deref(mk1, uref) EXCEPT !.implementationOnce = Shift(@)])
      take == TakeReturnValue(Deref(mk2, uref))
      mk3  == SetRef(mk2, uref, take.state)
      rp   == ReturnProxy(PushResult(mk2, node, Result("incomplete", Undef),
                                     Result("incomplete", Undef)), node)
  IN
  IF impl # NoImpl THEN
    IF impl.kind = "return"
    THEN [mk  |-> PushResult(mk2, node, Result("return", impl.v), Result("fulfilled", impl.v)),
          ret |-> Returned("value", impl.v, NoNode),
          log |-> <<LogEntry(node, args, callOrder, Result("return", impl.v),
                             Result("fulfilled", impl.v))>>]
    ELSE [mk  |-> mk2, ret |-> Returned("throw", impl.v, NoNode),
          log |-> <<LogEntry(node, args, callOrder, Result("throw", impl.v),
                             Result("rejected", impl.v))>>]
  ELSE IF take.found THEN
    [mk  |-> PushResult(mk3, node, Result("return", take.value),
                        Result("fulfilled", take.value)),
     ret |-> Returned("value", take.value, NoNode),
     log |-> <<LogEntry(node, args, callOrder, Result("return", take.value),
                        Result("fulfilled", take.value))>>]
  ELSE
    [mk |-> rp.mk, ret |-> rp.ret,
     log |-> <<LogEntry(node, args, callOrder, Result("incomplete", Undef),
                        Result("incomplete", Undef))>>]

\* The state object the handler of a proxy closes over, as an object: the
\* root state the caller's root Node closes over, or the state entered in the
\* map under a key between two resets.
StateObject(mk, node) ==
  IF node.own = "held" \/ (Join(node.path) = "" /\ mk.gen = 0)
  THEN [own |-> "held", key |-> "", gen |-> 0]
  ELSE [own |-> "map", key |-> Join(node.path), gen |-> mk.gen]

\* impl(...args) gave a value for which `returnValue instanceof Promise`
\* holds, the pending promise of this invocation: results gets 'return',
\* settledResults gets 'incomplete', and the continuation attached to the
\* promise keeps the state object and settledIdx (here from 1).
ApplyPromise(mk, node, args, callOrder) ==
  LET p   == PromiseNames[callOrder]
      mkp == PushResult(mk, node, Result("return", p), Result("incomplete", Undef))
  IN [mk  |-> [mkp EXCEPT !.pending = @ \cup
                 {[promise |-> p, state |-> StateObject(mk, node),
                   settledIdx |-> Len(StateOf(mkp, node).settledResults),
                   order |-> callOrder]}],
      ret |-> Returned("value", p, NoNode),
      log |-> <<LogEntry(node, args, callOrder, Result("return", p),
                         Result("incomplete", Undef))>>]

RECURSIVE Apply(_, _, _, _, _)

\* impl(...args) for an implementation of kind "call", which is
\* () => { m.path(args); return v }: the invocation m.path(args) through the
\* root reference of the caller.
ImplCall(mk, impl, callOrder) ==
  Apply(Nav(mk, mk.rootRef, impl.path).mk, Nav(mk, mk.rootRef, impl.path).node,
        IF impl.path = <<>> THEN <<>>
        ELSE Nav(mk, mk.rootRef, Front(impl.path)).node.id,
        impl.args, callOrder)

\* What apply does once such an implementation is through its invocation
\* in: an exception of the invocation goes through the implementation and is
\* recorded and thrown, otherwise impl.v is recorded and returned.
AfterImplCall(in, impl, node, args, callOrder) ==
  IF in.ret.kind = "throw"
  THEN [mk  |-> PushResult(in.mk, node, Result("throw", in.ret.v),
                           Result("rejected", in.ret.v)),
        ret |-> Returned("throw", in.ret.v, NoNode),
        log |-> Append(in.log,
                  LogEntry(node, args, callOrder, Result("throw", in.ret.v),
                           Result("rejected", in.ret.v)))]
  ELSE [mk  |-> PushResult(in.mk, node, Result("return", impl.v),
                           Result("fulfilled", impl.v)),
        ret |-> Returned("value", impl.v, NoNode),
        log |-> Append(in.log,
                  LogEntry(node, args, callOrder, Result("return", impl.v),
                           Result("fulfilled", impl.v)))]

\* The apply trap: the invocation of node with receiver thisArg and arguments
\* args, given the invocation-order number callOrder.  An implementation of
\* kind "return" returns impl.v, one of kind "throw" throws impl.v, one of
\* kind "promise" returns a new pending promise, and one of kind "call"
\* invokes the mock, which takes the next invocation-order number.  log lists the invocations completed, in the order of their
\* results.
Apply(mk, node, thisArg, args, callOrder) ==
  LET mk1  == RecordCall(mk, node, thisArg, args, callOrder)
      uref == UseSyncState(mk1, node)
      impl == PickImpl(Deref(mk1, uref))
      mk2  == SetRef(mk1, uref,
                [Deref(mk1, uref) EXCEPT !.implementationOnce = Shift(@)])
      take == TakeReturnValue(Deref(mk2, uref))
      mk3  == SetRef(mk2, uref, take.state)
      rp   == ReturnProxy(PushResult(mk2, node, Result("incomplete", Undef),
                                     Result("incomplete", Undef)), node)
  IN
  IF impl # NoImpl THEN
    IF impl.kind = "return"
    THEN [mk  |-> PushResult(mk2, node, Result("return", impl.v), Result("fulfilled", impl.v)),
          ret |-> Returned("value", impl.v, NoNode),
          log |-> <<LogEntry(node, args, callOrder, Result("return", impl.v),
                             Result("fulfilled", impl.v))>>]
    ELSE IF impl.kind = "call"
    THEN AfterImplCall(ImplCall(mk2, impl, callOrder + 1), impl, node, args, callOrder)
    ELSE IF impl.kind = "promise"
    THEN ApplyPromise(mk2, node, args, callOrder)
    ELSE [mk  |-> PushResult(mk2, node, Result("throw", impl.v), Result("rejected", impl.v)),
          ret |-> Returned("throw", impl.v, NoNode),
          log |-> <<LogEntry(node, args, callOrder, Result("throw", impl.v),
                             Result("rejected", impl.v))>>]
  ELSE IF take.found THEN
    [mk  |-> PushResult(mk3, node, Result("return", take.value),
                        Result("fulfilled", take.value)),
     ret |-> Returned("value", take.value, NoNode),
     log |-> <<LogEntry(node, args, callOrder, Result("return", take.value),
                        Result("fulfilled", take.value))>>]
  ELSE
    [mk |-> rp.mk, ret |-> rp.ret,
     log |-> <<LogEntry(node, args, callOrder, Result("incomplete", Undef),
                        Result("incomplete", Undef))>>]

\* ------------------------------------------- settlement of a returned promise

\* An array slot nothing was assigned to.
Hole == [type |-> "hole", value |-> Undef]

\* arr[idx] = x of JavaScript (idx from 1 here): an index beyond the end
\* makes the array longer, with holes up to it.
ArraySet(arr, idx, x) ==
  IF idx <= Len(arr) THEN [arr EXCEPT ![idx] = x]
  ELSE arr \o [i \in 1 .. (idx - Len(arr) - 1) |-> Hole] \o <<x>>

\* Where the state object of a continuation is: in the map, with the caller's
\* root Node, or with no Node the caller can reach (a state of the map that a
\* mockReset() dropped).
ContinuationRef(mk, c) ==
  IF c.state.own = "held"
  THEN IF mk.rootRef.own = "held" THEN [own |-> "held", key |-> ""] ELSE MapRef("")
  ELSE IF c.state.gen = mk.gen THEN MapRef(c.state.key)
  ELSE NoRef

\* The continuation of apply for promise p runs with the settlement of p:
\* state.mock.settledResults[settledIdx] = {type, value}.
Settle(mk, p, settlement) ==
  IF \A c \in mk.pending : c.promise # p THEN mk
  ELSE LET c   == CHOOSE c \in mk.pending : c.promise = p
           ref == ContinuationRef(mk, c)
           mk1 == [mk EXCEPT !.pending = @ \ {c}]
       IN IF ref = NoRef THEN mk1
          ELSE SetRef(mk1, ref,
                 [Deref(mk1, ref) EXCEPT
                    !.settledResults = ArraySet(@, c.settledIdx, settlement)])

\* ------------------------------------------------------------------- then

\* The test of the then handler's walk: a rejected or resolved value is set.
HasAsyncValue(s) ==
  \/ Len(s.rejectedValueQueue) > 0
  \/ s.rejectedValue # Undef
  \/ Len(s.resolvedValueQueue) > 0
  \/ s.resolvedValue # Undef

\* The walk of the then handler from currentPath up to the root.
RECURSIVE WalkUpAsync(_, _)
WalkUpAsync(mk, currentPath) ==
  LET checkKey == Join(currentPath) IN
  IF checkKey \in DOMAIN mk.pathStates /\ HasAsyncValue(mk.pathStates[checkKey])
  THEN MapRef(checkKey)
  ELSE IF Len(currentPath) = 0 THEN NoRef
  ELSE WalkUpAsync(mk, Front(currentPath))

\* useState = foundState ?? state
UseAsyncState(mk, node) ==
  IF WalkUpAsync(mk, node.path) # NoRef THEN WalkUpAsync(mk, node.path)
  ELSE RefOf(node)

\* array[array.length - 1] = x: with an empty array the index is -1, which
\* sets a property and leaves the array's elements and length alone.
SetLastElem(arr, x) == IF Len(arr) = 0 THEN arr ELSE [arr EXCEPT ![Len(arr)] = x]

\* A then handler that pushes its outcome as a new entry.
SetLastResultPush(mk, node, result, settled) == PushResult(mk, node, result, settled)

\* state.mock.results[lastResultIdx] = ..; state.mock.settledResults[lastSettledIdx] = ..
SetLastResult(mk, node, result, settled) ==
  UpdateState(mk, node,
    [StateOf(mk, node) EXCEPT !.results = SetLastElem(@, result),
                              !.settledResults = SetLastElem(@, settled)])

\* A then handler that leaves the queues as they are.
TakeSettlementKeep(u) ==
  IF Len(u.rejectedValueQueue) > 0
  THEN [rejected |-> TRUE, value |-> Head(u.rejectedValueQueue), state |-> u]
  ELSE IF u.rejectedValue # Undef
  THEN [rejected |-> TRUE, value |-> u.rejectedValue, state |-> u]
  ELSE IF Len(u.resolvedValueQueue) > 0
  THEN [rejected |-> FALSE, value |-> Head(u.resolvedValueQueue), state |-> u]
  ELSE [rejected |-> FALSE, value |-> u.resolvedValue, state |-> u]

\* A then handler that looks at the resolved values before the rejected ones.
TakeSettlementResolvedFirst(u) ==
  IF Len(u.resolvedValueQueue) > 0
  THEN [rejected |-> FALSE, value |-> Head(u.resolvedValueQueue),
        state |-> [u EXCEPT !.resolvedValueQueue = Tail(@)]]
  ELSE IF u.resolvedValue # Undef
  THEN [rejected |-> FALSE, value |-> u.resolvedValue, state |-> u]
  ELSE IF Len(u.rejectedValueQueue) > 0
  THEN [rejected |-> TRUE, value |-> Head(u.rejectedValueQueue),
        state |-> [u EXCEPT !.rejectedValueQueue = Tail(@)]]
  ELSE IF u.rejectedValue # Undef
  THEN [rejected |-> TRUE, value |-> u.rejectedValue, state |-> u]
  ELSE [rejected |-> FALSE, value |-> Undef, state |-> u]

\* A then handler that looks at both queues before the persistent values.
TakeSettlementQueuesFirst(u) ==
  IF Len(u.rejectedValueQueue) > 0
  THEN [rejected |-> TRUE, value |-> Head(u.rejectedValueQueue),
        state |-> [u EXCEPT !.rejectedValueQueue = Tail(@)]]
  ELSE IF Len(u.resolvedValueQueue) > 0
  THEN [rejected |-> FALSE, value |-> Head(u.resolvedValueQueue),
        state |-> [u EXCEPT !.resolvedValueQueue = Tail(@)]]
  ELSE IF u.rejectedValue # Undef
  THEN [rejected |-> TRUE, value |-> u.rejectedValue, state |-> u]
  ELSE [rejected |-> FALSE, value |-> u.resolvedValue, state |-> u]

\* What the then handler settles with, from the state it uses: the rejected
\* queue's first entry (shifted out), else the persistent rejected value, else
\* the resolved queue's first entry (shifted out), else the persistent resolved
\* value, which is undefined when none is set.
TakeSettlement(u) ==
  IF Len(u.rejectedValueQueue) > 0
  THEN [rejected |-> TRUE, value |-> Head(u.rejectedValueQueue),
        state |-> [u EXCEPT !.rejectedValueQueue = Tail(@)]]
  ELSE IF u.rejectedValue # Undef
  THEN [rejected |-> TRUE, value |-> u.rejectedValue, state |-> u]
  ELSE IF Len(u.resolvedValueQueue) > 0
  THEN [rejected |-> FALSE, value |-> Head(u.resolvedValueQueue),
        state |-> [u EXCEPT !.resolvedValueQueue = Tail(@)]]
  ELSE [rejected |-> FALSE, value |-> u.resolvedValue, state |-> u]

\* A then handler that writes the outcome into the registry of the state the
\* value was found on.
ThenOnFoundState(mk, node, hasReject) ==
  LET uref == UseAsyncState(mk, node)
      take == TakeSettlement(Deref(mk, uref))
      mk1  == SetRef(mk, uref, take.state)
      type == IF take.rejected THEN "throw" ELSE "return"
      sett == IF take.rejected THEN "rejected" ELSE "fulfilled"
  IN
  [mk  |-> SetRef(mk1, uref,
             [Deref(mk1, uref) EXCEPT
                !.results = SetLastElem(@, Result(type, take.value)),
                !.settledResults = SetLastElem(@, Result(sett, take.value))]),
   ret |-> Returned(IF ~take.rejected THEN "fulfilled"
                    ELSE IF hasReject THEN "rejected" ELSE "unhandled",
                    take.value, NoNode)]

\* The then handler called with a resolve callback and, when hasReject, a
\* reject callback (as await does): "fulfilled" and "rejected" are the
\* callback invoked and its argument; "unhandled" is the rejected promise
\* returned when there is no reject callback.
Then(mk, node, hasReject) ==
  LET uref == UseAsyncState(mk, node)
      take == TakeSettlement(Deref(mk, uref))
      mk1  == SetRef(mk, uref, take.state)
  IN
  IF take.rejected THEN
    [mk  |-> SetLastResult(mk1, node, Result("throw", take.value),
                           Result("rejected", take.value)),
     ret |-> Returned(IF hasReject THEN "rejected" ELSE "unhandled", take.value, NoNode)]
  ELSE
    [mk  |-> SetLastResult(mk1, node, Result("return", take.value),
                           Result("fulfilled", take.value)),
     ret |-> Returned("fulfilled", take.value, NoNode)]

\* ------------------------------------------------------------ await of a Node

\* `await node` in the caller: the engine of the language queues a job that
\* calls node.then(resolve, reject) with the two callbacks of the await.
\* linked says that the reject callback handed to then is that of the await;
\* resolved and rejected count the invocations of the await's two callbacks.
NewAwait(path) ==
  [path |-> path, linked |-> TRUE, phase |-> "then", value |-> Undef,
   resolved |-> 0, rejected |-> 0]

\* One job of the i-th await runs.
\* In phase "then" the then handler of the Node at the await's path is called.
\* With a rejected value it calls the reject callback it was given, at once:
\* that of the await, or, for a Node that was the resolved value of another
\* Node, that of the promise `Promise.resolve(value)` made by the other Node's
\* handler, on which only `promise.then(resolve)` was called, so that the
\* rejection reaches no callback of the await.  With a resolved value it
\* makes `Promise.resolve(value)` and calls `promise.then(resolve)`: for a
\* value that is a Node, the promise follows the Node by a job that calls the
\* then handler of that Node; for any other value, resolve is called by a
\* later job (phase "settling").
RunJob(mk, i) ==
  LET j == mk.awaits[i]
      r == Then(Nav(mk, mk.rootRef, j.path).mk, Nav(mk, mk.rootRef, j.path).node, TRUE)
  IN
  IF j.phase = "settling"
  THEN [mk EXCEPT !.awaits[i] = [j EXCEPT !.phase = "done", !.resolved = @ + 1]]
  ELSE IF j.phase # "then" THEN mk
  ELSE IF r.ret.kind = "rejected"
  THEN IF j.linked
       THEN [r.mk EXCEPT !.awaits[i] =
               [j EXCEPT !.phase = "done", !.value = r.ret.v, !.rejected = @ + 1]]
       ELSE [r.mk EXCEPT !.awaits[i] = [j EXCEPT !.phase = "dropped", !.value = r.ret.v]]
  ELSE IF r.ret.v \in NodeValues
  THEN [r.mk EXCEPT !.awaits[i] =
          [j EXCEPT !.path = NodePath(r.ret.v), !.linked = FALSE]]
  ELSE [r.mk EXCEPT !.awaits[i] = [j EXCEPT !.phase = "settling", !.value = r.ret.v]]

\* ------------------------------------------------------- mockClear / mockReset

\* A clear that also returns the configuration to its initial values.
ClearedAll(s) == NewState

\* The registry fields of a state emptied.
ClearedRegistry(s) ==
  [s EXCEPT !.calls = <<>>, !.results = <<>>, !.contexts = <<>>, !.instances = <<>>,
            !.invocationCallOrder = <<>>, !.settledResults = <<>>]

\* The usage error of mockClear() and mockReset() on a nested path.
UsageError == Returned("throw", "usage error", NoNode)

\* A mockClear() without the root-only test.
MockClearAnywhere(mk, node) ==
  ReturnProxy(
    [mk EXCEPT !.pathStates = [k \in DOMAIN @ |-> ClearedRegistry(@[k])]], node)

\* mockClear(): every state of the map gets empty registry arrays.
MockClear(mk, node) ==
  IF Len(node.path) > 0 THEN [mk |-> mk, ret |-> UsageError]
  ELSE ReturnProxy(
         [mk EXCEPT !.pathStates = [k \in DOMAIN @ |-> ClearedRegistry(@[k])]], node)

\* mockReset(): both maps are cleared and a new root state is entered under
\* the handler's cacheKey; getOrCreateProxy then builds a new root proxy over
\* it.  The root proxy the caller holds keeps the state object it closed over,
\* which is no longer in the map.
MockReset(mk, node) ==
  IF Len(node.path) > 0 THEN [mk |-> mk, ret |-> UsageError]
  ELSE LET cacheKey  == Join(node.path)
           heldState == IF mk.rootRef.own = "map" THEN mk.pathStates[Join(mk.rootRef.path)]
                        ELSE mk.heldState
       IN ReturnProxy(
            [mk EXCEPT !.pathStates = MapSet(EmptyMap, cacheKey, NewState),
                       !.proxyCache = EmptyMap,
                       !.allocs = EmptyMap,
                       !.gen = @ + 1,
                       !.heldState = heldState,
                       !.rootRef = [@ EXCEPT !.own = "held"]], node)

\* ----------------------------------------------------------- catch / finally

\* node.catch(_fn): fn is dropped; the proxy of the path is returned.  fnCalls
\* counts the invocations of fn the handler makes.
Catch(mk, node) ==
  [mk |-> ReturnProxy(mk, node).mk, ret |-> ReturnProxy(mk, node).ret, fnCalls |-> 0]

\* node.finally(fn): fn() at once, then the proxy of the path.
Finally(mk, node) ==
  [mk |-> ReturnProxy(mk, node).mk, ret |-> ReturnProxy(mk, node).ret, fnCalls |-> 1]

\* ---------------------------------------------- clearAllMocks / resetAllMocks

\* mock.mockClear() and mock.mockReset() on a root Node of the registry: the
\* Node chainMock() returned.
RegisteredClear(mk) == MockClear(mk, mk.rootRef).mk
RegisteredReset(mk) == MockReset(mk, mk.rootRef).mk

\* clearAllMocks(): mockClear() on every root of the registry.
ClearAllMocks(ms, registry) ==
  [mocks |-> [m \in DOMAIN ms |-> IF m \in registry THEN RegisteredClear(ms[m]) ELSE ms[m]],
   registry |-> registry]

\* A resetAllMocks() that leaves the roots in the registry.
ResetAllMocksKeep(ms, registry) ==
  [mocks |-> [m \in DOMAIN ms |-> IF m \in registry THEN RegisteredReset(ms[m]) ELSE ms[m]],
   registry |-> registry]

\* resetAllMocks(): mockReset() on every root of the registry, then
\* mockRegistry.clear().
ResetAllMocks(ms, registry) ==
  [mocks |-> [m \in DOMAIN ms |-> IF m \in registry THEN RegisteredReset(ms[m]) ELSE ms[m]],
   registry |-> {}]

\* ---------------------------------------------------------------- matchers

\* getPathSegments(chainMock): the keys of the non-empty prefixes of the
\* Node's path, shortest first; none for the root.
GetPathSegments(node) ==
  [i \in 1 .. Len(node.path) |-> Join(SubSeq(node.path, 1, i))]

\* getPathState(chainMock, segment)?.mock.calls, with no calls where the map
\* has no state for the segment.
SegmentCalls(mk, segment) ==
  IF segment \in DOMAIN mk.pathStates THEN mk.pathStates[segment].calls ELSE <<>>

\* What a matcher returns: every matcher returns { pass, message }; none has
\* a throw statement.
MatcherResult(pass) == [threw |-> FALSE, pass |-> pass]

\* The host's assertion: expect(received).matcher(..) succeeds when the
\* matcher returns pass, expect(received).not.matcher(..) when it returns
\* pass = false; a matcher that throws makes both fail.
Expect(result, isNot) == ~result.threw /\ (result.pass # isNot)

\* Math.min(...callCounts) and Math.max(...callCounts) over the segments.
MinCalls(mk, segments) ==
  CHOOSE c \in {Len(SegmentCalls(mk, segments[i])) : i \in DOMAIN segments} :
    \A i \in DOMAIN segments : c <= Len(SegmentCalls(mk, segments[i]))
MaxCalls(mk, segments) ==
  CHOOSE c \in {Len(SegmentCalls(mk, segments[i])) : i \in DOMAIN segments} :
    \A i \in DOMAIN segments : c >= Len(SegmentCalls(mk, segments[i]))

\* A variant that is satisfied by a call of any one segment.
ToHaveBeenChainCalledAnySegment(mk, received) ==
  LET segments == GetPathSegments(received) IN
  IF Len(segments) = 0 THEN MatcherResult(FALSE)
  ELSE MatcherResult(\E i \in DOMAIN segments : Len(SegmentCalls(mk, segments[i])) # 0)

ToHaveBeenChainCalled(mk, received) ==
  LET segments == GetPathSegments(received) IN
  IF Len(segments) = 0 THEN MatcherResult(FALSE)
  ELSE MatcherResult(\A i \in DOMAIN segments : Len(SegmentCalls(mk, segments[i])) # 0)

\* A variant that counts the calls of the last segment only.
ToHaveBeenChainCalledTimesLastSegment(mk, received, expected) ==
  LET segments == GetPathSegments(received) IN
  IF Len(segments) = 0 THEN MatcherResult(FALSE)
  ELSE MatcherResult(Len(SegmentCalls(mk, segments[Len(segments)])) = expected)

ToHaveBeenChainCalledTimes(mk, received, expected) ==
  LET segments == GetPathSegments(received) IN
  IF Len(segments) = 0 THEN MatcherResult(FALSE)
  ELSE MatcherResult(\A i \in DOMAIN segments :
                       Len(SegmentCalls(mk, segments[i])) = expected)

ToHaveBeenChainCalledExactlyOnce(mk, received) ==
  ToHaveBeenChainCalledTimes(mk, received, 1)

ToHaveBeenChainCalledExactlyOnceWith(mk, received, argsPerSegment) ==
  LET segments == GetPathSegments(received) IN
  IF Len(segments) = 0 THEN MatcherResult(FALSE)
  ELSE IF Len(argsPerSegment) # Len(segments) THEN MatcherResult(FALSE)
  ELSE MatcherResult(\A i \in DOMAIN segments :
         /\ Len(SegmentCalls(mk, segments[i])) = 1
         /\ SegmentCalls(mk, segments[i])[1] = argsPerSegment[i])

\* toHaveBeenChainCalledWith matching every segment on its own calls.
ToHaveBeenChainCalledWithPerSegment(mk, received, argsPerSegment) ==
  LET segments == GetPathSegments(received) IN
  IF Len(segments) = 0 THEN MatcherResult(FALSE)
  ELSE IF Len(argsPerSegment) # Len(segments) THEN MatcherResult(FALSE)
  ELSE MatcherResult(\A segIdx \in DOMAIN segments :
         \E callIdx \in 1 .. Len(SegmentCalls(mk, segments[segIdx])) :
           SegmentCalls(mk, segments[segIdx])[callIdx] = argsPerSegment[segIdx])

\* The loop over callIdx = 0 .. minCalls - 1 returns pass at the first index
\* at which every segment's call equals its expected arguments.
ToHaveBeenChainCalledWith(mk, received, argsPerSegment) ==
  LET segments == GetPathSegments(received) IN
  IF Len(segments) = 0 THEN MatcherResult(FALSE)
  ELSE IF Len(argsPerSegment) # Len(segments) THEN MatcherResult(FALSE)
  ELSE IF MinCalls(mk, segments) = 0 THEN MatcherResult(FALSE)
  ELSE MatcherResult(\E callIdx \in 0 .. MinCalls(mk, segments) - 1 :
         \A segIdx \in DOMAIN segments :
           SegmentCalls(mk, segments[segIdx])[callIdx + 1] = argsPerSegment[segIdx])

\* toHaveBeenNthChainCalledWith reading calls[n] where the code reads
\* calls[n - 1].
ToHaveBeenNthChainCalledWithOffByOne(mk, received, n, argsPerSegment) ==
  LET segments == GetPathSegments(received) IN
  IF Len(segments) = 0 THEN MatcherResult(FALSE)
  ELSE IF n < 1 THEN MatcherResult(FALSE)
  ELSE IF Len(argsPerSegment) # Len(segments) THEN MatcherResult(FALSE)
  ELSE MatcherResult(\A i \in DOMAIN segments :
         /\ Len(SegmentCalls(mk, segments[i])) >= n + 1
         /\ SegmentCalls(mk, segments[i])[n + 1] = argsPerSegment[i])

ToHaveBeenNthChainCalledWith(mk, received, n, argsPerSegment) ==
  LET segments == GetPathSegments(received) IN
  IF Len(segments) = 0 THEN MatcherResult(FALSE)
  ELSE IF n < 1 THEN MatcherResult(FALSE)
  ELSE IF Len(argsPerSegment) # Len(segments) THEN MatcherResult(FALSE)
  ELSE MatcherResult(\A i \in DOMAIN segments :
         /\ ~(Len(SegmentCalls(mk, segments[i])) < n)
         /\ SegmentCalls(mk, segments[i])[n] = argsPerSegment[i])

\* toHaveBeenLastChainCalledWith checking each segment's own last call.
ToHaveBeenLastChainCalledWithOwn(mk, received, argsPerSegment) ==
  LET segments == GetPathSegments(received) IN
  IF Len(segments) = 0 THEN MatcherResult(FALSE)
  ELSE IF Len(argsPerSegment) # Len(segments) THEN MatcherResult(FALSE)
  ELSE MatcherResult(\A i \in DOMAIN segments :
         /\ Len(SegmentCalls(mk, segments[i])) > 0
         /\ SegmentCalls(mk, segments[i])[Len(SegmentCalls(mk, segments[i]))]
              = argsPerSegment[i])

\* toHaveBeenLastChainCalledWith taking the smallest call count as n.
ToHaveBeenLastChainCalledWithMin(mk, received, argsPerSegment) ==
  LET segments == GetPathSegments(received) IN
  IF Len(segments) = 0 THEN MatcherResult(FALSE)
  ELSE IF MinCalls(mk, segments) = 0 THEN MatcherResult(FALSE)
  ELSE ToHaveBeenNthChainCalledWith(mk, received, MinCalls(mk, segments), argsPerSegment)

ToHaveBeenLastChainCalledWith(mk, received, argsPerSegment) ==
  LET segments == GetPathSegments(received) IN
  IF Len(segments) = 0 THEN MatcherResult(FALSE)
  ELSE IF MaxCalls(mk, segments) = 0 THEN MatcherResult(FALSE)
  ELSE ToHaveBeenNthChainCalledWith(mk, received, MaxCalls(mk, segments), argsPerSegment)

\* ---------------------------------------------------------------- the caller

\* The caller writes its expressions from the root reference it holds (the
\* Node chainMock() returned): m.n1.n2...nk reaches a Node by the get traps.
Reach(mk, P) == Nav(mk, mk.rootRef, P)

\* The PathState the caller reads and configures at path P (m.P.mock, m.P.mockX).
View(mk, P) == StateOf(Reach(mk, P).mk, Reach(mk, P).node)

\* The receiver of m.n1...nk(..): the Node before the last name; none when the
\* root reference itself is called.
Receiver(mk, P) == IF P = <<>> THEN <<>> ELSE Reach(mk, Front(P)).node.id

\* m.P.mockResolvedValue(value) and the other setters.
DoMockResolvedValue(mk, P, value) ==
  MockResolvedValue(Reach(mk, P).mk, Reach(mk, P).node, value)
DoMockResolvedValueOnce(mk, P, value) ==
  MockResolvedValueOnce(Reach(mk, P).mk, Reach(mk, P).node, value)
DoMockRejectedValue(mk, P, error) ==
  MockRejectedValue(Reach(mk, P).mk, Reach(mk, P).node, error)
DoMockRejectedValueOnce(mk, P, error) ==
  MockRejectedValueOnce(Reach(mk, P).mk, Reach(mk, P).node, error)
DoMockReturnValue(mk, P, value) ==
  MockReturnValue(Reach(mk, P).mk, Reach(mk, P).node, value)
DoMockReturnValueOnce(mk, P, value) ==
  MockReturnValueOnce(Reach(mk, P).mk, Reach(mk, P).node, value)
DoMockImplementation(mk, P, fn) ==
  MockImplementation(Reach(mk, P).mk, Reach(mk, P).node, fn)
DoMockImplementationOnce(mk, P, fn) ==
  MockImplementationOnce(Reach(mk, P).mk, Reach(mk, P).node, fn)
DoMockName(mk, P, name) ==
  MockName(Reach(mk, P).mk, Reach(mk, P).node, name)

\* m.P alone.
DoGet(mk, P) == [mk |-> Reach(mk, P).mk, ret |-> Returned("node", Undef, Reach(mk, P).node)]

\* m.P(args), given the invocation-order number.
DoApply(mk, P, args, callOrder) ==
  Apply(Reach(mk, P).mk, Reach(mk, P).node, Receiver(mk, P), args, callOrder)

\* await m.P
DoThen(mk, P) == Then(Reach(mk, P).mk, Reach(mk, P).node, TRUE)

\* await m.P, up to the job that will call then.
DoAwaitStart(mk, P) ==
  [mk  |-> [Reach(mk, P).mk EXCEPT !.awaits = Append(@, NewAwait(P))],
   ret |-> Returned("value", Undef, NoNode)]

\* m.P.catch(fn) and m.P.finally(fn)
DoCatch(mk, P) == Catch(Reach(mk, P).mk, Reach(mk, P).node)
DoFinally(mk, P) == Finally(Reach(mk, P).mk, Reach(mk, P).node)

\* m.P.mockClear() and m.P.mockReset()
DoMockClear(mk, P) == MockClear(Reach(mk, P).mk, Reach(mk, P).node)
DoMockReset(mk, P) == MockReset(Reach(mk, P).mk, Reach(mk, P).node)

\* The rest of a chain invocation node.n1(a1).n2(a2)...: each name is read
\* from the Node the invocation before it returned and invoked with that Node
\* as receiver; done counts the invocations made.  The chain ends early when
\* an invocation throws, or returns a value, on which the next call fails.
RECURSIVE ChainFrom(_, _, _, _, _, _)

\* The chain after the invocation of its first name gave r.
ChainAfter(r, names, argsList, callOrder, done) ==
  IF r.ret.kind = "node"
  THEN ChainFrom(r.mk, r.ret.node, Tail(names), Tail(argsList),
                 callOrder + 1, done + 1)
  ELSE IF r.ret.kind = "value" /\ Len(names) > 1
  THEN [mk |-> r.mk, ret |-> Returned("throw", "TypeError", NoNode),
        done |-> done + 1]
  ELSE [mk |-> r.mk, ret |-> r.ret, done |-> done + 1]

ChainFrom(mk, node, names, argsList, callOrder, done) ==
  IF names = <<>>
  THEN [mk |-> mk, ret |-> Returned("node", Undef, node), done |-> done]
  ELSE ChainAfter(Apply(GetChild(mk, node, Head(names)).mk,
                        GetChild(mk, node, Head(names)).node,
                        node.id, Head(argsList), callOrder),
                  names, argsList, callOrder, done)

\* m.s1(a1).s2(a2)...sk(ak) from the root reference, P = <<s1, .., sk>>.
DoChain(mk, P, argsList, callOrder) ==
  ChainFrom(mk, mk.rootRef, P, argsList, callOrder, 0)

\* p is a prefix of q.
IsPrefix(p, q) == Len(p) <= Len(q) /\ SubSeq(q, 1, Len(p)) = p

NoYield == [P \in AllPaths |-> {}]
NoneInvoked == [P \in AllPaths |-> <<>>]

\* An engine whose two maps are shared by all mocks: the outcome of an
\* operation is the state of every mock.
ObserveShared(m, P, r, fr) ==
  /\ mocks' = [n \in DOMAIN mocks |-> r.mk]
  /\ fresh' = [fresh EXCEPT ![m] = fr.mk]
  /\ yielded' = [yielded EXCEPT ![m] =
       [Q \in DOMAIN @ |->
          @[Q] \cup (IF IsPrefix(Q, P) THEN {Reach(mocks[m], Q).node.id} ELSE {})
               \cup (IF Q = P /\ r.ret.kind = "node" THEN {r.ret.node.id} ELSE {})]]

\* The effect of an operation on path P with outcome r on the mock and fr on
\* the fresh mock; the caller was given the Nodes on the way to P and the Node
\* returned, if any.
Observe(m, P, r, fr) ==
  /\ mocks' = [mocks EXCEPT ![m] = r.mk]
  /\ fresh' = [fresh EXCEPT ![m] = fr.mk]
  /\ yielded' = [yielded EXCEPT ![m] =
       [Q \in DOMAIN @ |->
          @[Q] \cup (IF IsPrefix(Q, P) THEN {Reach(mocks[m], Q).node.id} ELSE {})
               \cup (IF Q = P /\ r.ret.kind = "node" THEN {r.ret.node.id} ELSE {})]]

\* A one-shot setter may still grow the queue q.
RoomIn(q) == Len(q) < MaxQueue

InitWith(sc) ==
  /\ scope = sc
  /\ mocks = [m \in {1} |-> NewMock]
  /\ fresh = [m \in {1} |-> NewMock]
  /\ invocationCallCounter = 1
  /\ yielded = [m \in {1} |-> [NoYield EXCEPT ![<<>>] = {NewMock.rootRef.id}]]
  /\ invoked = [m \in {1} |-> NoneInvoked]
  /\ chained = [m \in {1} |-> {}]
  /\ nConfigs = 0
  /\ mockRegistry = {1}
  /\ created = {1}

Get ==
  \E m \in DOMAIN mocks : \E P \in scope.callPaths :
    /\ P # <<>>
    /\ Observe(m, P, DoGet(mocks[m], P), DoGet(fresh[m], P))
    /\ UNCHANGED <<invocationCallCounter, invoked, chained, nConfigs, scope, mockRegistry, created>>

CallMockResolvedValue ==
  \E m \in DOMAIN mocks : \E P \in scope.cfgPaths : \E value \in Values :
    /\ nConfigs < scope.maxConfigs
    /\ Observe(m, P, DoMockResolvedValue(mocks[m], P, value), DoMockResolvedValue(fresh[m], P, value))
    /\ nConfigs' = nConfigs + 1
    /\ UNCHANGED <<invocationCallCounter, invoked, chained, scope, mockRegistry, created>>

CallMockResolvedValueOnce ==
  \E m \in DOMAIN mocks : \E P \in scope.cfgPaths : \E value \in Values :
    /\ nConfigs < scope.maxConfigs
    /\ RoomIn(View(mocks[m], P).resolvedValueQueue)
    /\ Observe(m, P, DoMockResolvedValueOnce(mocks[m], P, value), DoMockResolvedValueOnce(fresh[m], P, value))
    /\ nConfigs' = nConfigs + 1
    /\ UNCHANGED <<invocationCallCounter, invoked, chained, scope, mockRegistry, created>>

CallMockRejectedValue ==
  \E m \in DOMAIN mocks : \E P \in scope.cfgPaths : \E error \in Values :
    /\ nConfigs < scope.maxConfigs
    /\ Observe(m, P, DoMockRejectedValue(mocks[m], P, error), DoMockRejectedValue(fresh[m], P, error))
    /\ nConfigs' = nConfigs + 1
    /\ UNCHANGED <<invocationCallCounter, invoked, chained, scope, mockRegistry, created>>

CallMockRejectedValueOnce ==
  \E m \in DOMAIN mocks : \E P \in scope.cfgPaths : \E error \in Values :
    /\ nConfigs < scope.maxConfigs
    /\ RoomIn(View(mocks[m], P).rejectedValueQueue)
    /\ Observe(m, P, DoMockRejectedValueOnce(mocks[m], P, error), DoMockRejectedValueOnce(fresh[m], P, error))
    /\ nConfigs' = nConfigs + 1
    /\ UNCHANGED <<invocationCallCounter, invoked, chained, scope, mockRegistry, created>>

CallMockReturnValue ==
  \E m \in DOMAIN mocks : \E P \in scope.cfgPaths : \E value \in Values :
    /\ nConfigs < scope.maxConfigs
    /\ Observe(m, P, DoMockReturnValue(mocks[m], P, value), DoMockReturnValue(fresh[m], P, value))
    /\ nConfigs' = nConfigs + 1
    /\ UNCHANGED <<invocationCallCounter, invoked, chained, scope, mockRegistry, created>>

CallMockReturnValueOnce ==
  \E m \in DOMAIN mocks : \E P \in scope.cfgPaths : \E value \in Values :
    /\ nConfigs < scope.maxConfigs
    /\ RoomIn(View(mocks[m], P).returnValueQueue)
    /\ Observe(m, P, DoMockReturnValueOnce(mocks[m], P, value), DoMockReturnValueOnce(fresh[m], P, value))
    /\ nConfigs' = nConfigs + 1
    /\ UNCHANGED <<invocationCallCounter, invoked, chained, scope, mockRegistry, created>>

CallMockImplementation ==
  \E m \in DOMAIN mocks : \E P \in scope.cfgPaths : \E fn \in Impls :
    /\ nConfigs < scope.maxConfigs
    /\ Observe(m, P, DoMockImplementation(mocks[m], P, fn), DoMockImplementation(fresh[m], P, fn))
    /\ nConfigs' = nConfigs + 1
    /\ UNCHANGED <<invocationCallCounter, invoked, chained, scope, mockRegistry, created>>

CallMockImplementationOnce ==
  \E m \in DOMAIN mocks : \E P \in scope.cfgPaths : \E fn \in Impls :
    /\ nConfigs < scope.maxConfigs
    /\ RoomIn(View(mocks[m], P).implementationOnce)
    /\ Observe(m, P, DoMockImplementationOnce(mocks[m], P, fn), DoMockImplementationOnce(fresh[m], P, fn))
    /\ nConfigs' = nConfigs + 1
    /\ UNCHANGED <<invocationCallCounter, invoked, chained, scope, mockRegistry, created>>

\* mockImplementationOnce(fn) with an fn that invokes the mock.
CallMockImplementationOnceReentrant ==
  \E m \in DOMAIN mocks : \E P \in scope.cfgPaths : \E fn \in ReentrantImpls :
    /\ nConfigs < scope.maxConfigs
    /\ RoomIn(View(mocks[m], P).implementationOnce)
    /\ Observe(m, P, DoMockImplementationOnce(mocks[m], P, fn), DoMockImplementationOnce(fresh[m], P, fn))
    /\ nConfigs' = nConfigs + 1
    /\ UNCHANGED <<invocationCallCounter, invoked, chained, scope, mockRegistry, created>>

\* mockImplementation(fn) with an fn that returns something awaitable.
CallMockImplementationAwaitable ==
  \E m \in DOMAIN mocks : \E P \in scope.cfgPaths : \E fn \in AwaitableImpls :
    /\ nConfigs < scope.maxConfigs
    /\ Observe(m, P, DoMockImplementation(mocks[m], P, fn), DoMockImplementation(fresh[m], P, fn))
    /\ nConfigs' = nConfigs + 1
    /\ UNCHANGED <<invocationCallCounter, invoked, chained, scope, mockRegistry, created>>

\* A pending promise an implementation returned settles, and the continuation
\* apply attached to it runs.
SettlePromise ==
  \E m \in DOMAIN mocks : \E c \in mocks[m].pending : \E settlement \in Settlements :
    /\ mocks' = [mocks EXCEPT ![m] = Settle(@, c.promise, settlement)]
    /\ fresh' = [fresh EXCEPT ![m] = Settle(@, c.promise, settlement)]
    /\ UNCHANGED <<invocationCallCounter, yielded, invoked, chained, nConfigs, scope,
                   mockRegistry, created>>

\* mockResolvedValue(node) with a Node of the mock as the value.
CallMockResolvedValueNode ==
  \E m \in DOMAIN mocks : \E P \in scope.cfgPaths : \E value \in NodeValues :
    /\ nConfigs < scope.maxConfigs
    /\ Observe(m, P, DoMockResolvedValue(mocks[m], P, value), DoMockResolvedValue(fresh[m], P, value))
    /\ nConfigs' = nConfigs + 1
    /\ UNCHANGED <<invocationCallCounter, invoked, chained, scope, mockRegistry, created>>

\* await m.P begins.
StartAwait ==
  \E m \in DOMAIN mocks : \E P \in scope.callPaths :
    /\ Len(mocks[m].awaits) < MaxAwaits
    /\ Observe(m, P, DoAwaitStart(mocks[m], P), DoAwaitStart(fresh[m], P))
    /\ UNCHANGED <<invocationCallCounter, invoked, chained, nConfigs, scope, mockRegistry, created>>

\* The job queue of the language runs one job of an await.
RunMicrotask ==
  \E m \in DOMAIN mocks : \E i \in DOMAIN mocks[m].awaits :
    /\ mocks[m].awaits[i].phase \in {"then", "settling"}
    /\ mocks' = [mocks EXCEPT ![m] = RunJob(@, i)]
    /\ fresh' = [fresh EXCEPT ![m] = IF i \in DOMAIN @.awaits THEN RunJob(@, i) ELSE @]
    /\ UNCHANGED <<invocationCallCounter, yielded, invoked, chained, nConfigs, scope,
                   mockRegistry, created>>

CallMockName ==
  \E m \in DOMAIN mocks : \E P \in scope.cfgPaths : \E name \in MockNames :
    /\ nConfigs < scope.maxConfigs
    /\ Observe(m, P, DoMockName(mocks[m], P, name), DoMockName(fresh[m], P, name))
    /\ nConfigs' = nConfigs + 1
    /\ UNCHANGED <<invocationCallCounter, invoked, chained, scope, mockRegistry, created>>

Invoke ==
  \E m \in DOMAIN mocks : \E P \in scope.callPaths : \E args \in scope.args :
    /\ invocationCallCounter <= scope.maxOrder
    /\ Observe(m, P, DoApply(mocks[m], P, args, invocationCallCounter),
                     DoApply(fresh[m], P, args, invocationCallCounter))
    /\ invocationCallCounter' = invocationCallCounter
         + Len(DoApply(mocks[m], P, args, invocationCallCounter).log)
    /\ invoked' = [invoked EXCEPT ![m][P] = Append(@, args)]
    /\ UNCHANGED <<chained, nConfigs, scope, mockRegistry, created>>

Await ==
  \E m \in DOMAIN mocks : \E P \in scope.callPaths :
    /\ Observe(m, P, DoThen(mocks[m], P), DoThen(fresh[m], P))
    /\ UNCHANGED <<invocationCallCounter, invoked, chained, nConfigs, scope, mockRegistry, created>>

\* One argument list per segment of P.
ArgsPerSegment(P, args) == [1 .. Len(P) -> args]

\* m.s1(a1).s2(a2)...sk(ak): every prefix of P is invoked in turn.
InvokeChain ==
  \E m \in DOMAIN mocks : \E P \in scope.chainPaths :
  \E argsList \in ArgsPerSegment(P, scope.args) :
    LET r  == DoChain(mocks[m], P, argsList, invocationCallCounter)
        fr == DoChain(fresh[m], P, argsList, invocationCallCounter)
    IN /\ invocationCallCounter + Len(P) - 1 <= scope.maxOrder
       /\ Observe(m, P, r, fr)
       /\ invocationCallCounter' = invocationCallCounter + r.done
       /\ invoked' = [invoked EXCEPT ![m] =
            [Q \in DOMAIN @ |->
               IF IsPrefix(Q, P) /\ Len(Q) \in 1 .. r.done
               THEN Append(@[Q], argsList[Len(Q)]) ELSE @[Q]]]
       /\ chained' = IF r.done = Len(P)
                     THEN [chained EXCEPT ![m] = @ \cup {[path |-> P, args |-> argsList]}]
                     ELSE chained
       /\ UNCHANGED <<nConfigs, scope, mockRegistry, created>>

CallMockClear ==
  \E m \in DOMAIN mocks : \E P \in scope.lifePaths :
    /\ Observe(m, P, DoMockClear(mocks[m], P), DoMockClear(fresh[m], P))
    /\ invoked' = IF P = <<>> THEN [invoked EXCEPT ![m] = NoneInvoked] ELSE invoked
    /\ chained' = IF P = <<>> THEN [chained EXCEPT ![m] = {}] ELSE chained
    /\ UNCHANGED <<invocationCallCounter, nConfigs, scope, mockRegistry, created>>

\* mockReset(); the caller goes on with the root reference it holds.  From a
\* reset on, the fresh mock is a new one.
CallMockReset ==
  \E m \in DOMAIN mocks : \E P \in scope.lifePaths :
    /\ mocks[m].gen < scope.maxResets
    /\ IF P = <<>>
       THEN /\ mocks' = [mocks EXCEPT ![m] = DoMockReset(mocks[m], P).mk]
            /\ fresh' = [fresh EXCEPT ![m] = NewMock]
            /\ yielded' = [yielded EXCEPT ![m] =
                 [NoYield EXCEPT ![<<>>] = {mocks[m].rootRef.id,
                                            DoMockReset(mocks[m], P).ret.node.id}]]
            /\ invoked' = [invoked EXCEPT ![m] = NoneInvoked]
            /\ chained' = [chained EXCEPT ![m] = {}]
       ELSE /\ Observe(m, P, DoMockReset(mocks[m], P), DoMockReset(fresh[m], P))
            /\ UNCHANGED <<invoked, chained>>
    /\ UNCHANGED <<invocationCallCounter, nConfigs, scope, mockRegistry, created>>

\* ---------------------------------------------------------- specifications

\* The whole interface.
Init == InitWith(FullScope)

Next ==
  \/ Get
  \/ CallMockResolvedValue
  \/ CallMockResolvedValueOnce
  \/ CallMockRejectedValue
  \/ CallMockRejectedValueOnce
  \/ CallMockReturnValue
  \/ CallMockReturnValueOnce
  \/ CallMockImplementation
  \/ CallMockImplementationOnce
  \/ CallMockName
  \/ Invoke
  \/ Await
  \/ CallMockClear
  \/ CallMockReset

Spec == Init /\ [][Next]_vars

\* Synchronous behaviour: return values and implementations, invocation
\* and reset.
InitSync == InitWith(SyncScope)

NextSync ==
  \/ CallMockReturnValue
  \/ CallMockReturnValueOnce
  \/ CallMockImplementation
  \/ CallMockImplementationOnce
  \/ Invoke
  \/ CallMockReset

SpecSync == InitSync /\ [][NextSync]_vars

\* Await-time behaviour: resolved and rejected values, invocation, await
\* and reset.
InitAsync == InitWith(AsyncScope)

NextAsync ==
  \/ CallMockResolvedValue
  \/ CallMockResolvedValueOnce
  \/ CallMockRejectedValue
  \/ CallMockRejectedValueOnce
  \/ Invoke
  \/ Await
  \/ CallMockReset

SpecAsync == InitAsync /\ [][NextAsync]_vars

\* The registries the matchers read: chain invocations, clear and reset.
InitMatch == InitWith(MatchScope)

NextMatch ==
  \/ InvokeChain
  \/ CallMockClear
  \/ CallMockReset

SpecMatch == InitMatch /\ [][NextMatch]_vars

\* The process-wide registry: mocks are created, configured and invoked, and
\* cleared and reset in bulk.  No mock exists at the start.
InitBulk ==
  /\ scope = BulkScope
  /\ mocks = <<>>
  /\ fresh = <<>>
  /\ invocationCallCounter = 1
  /\ yielded = <<>>
  /\ invoked = <<>>
  /\ chained = <<>>
  /\ nConfigs = 0
  /\ mockRegistry = {}
  /\ created = {}

\* chainMock(): a new mock, whose root is added to the registry.
ChainMock ==
  LET n == Len(mocks) + 1 IN
  /\ n <= MaxMocks
  /\ mocks' = Append(mocks, NewMock)
  /\ fresh' = Append(fresh, NewMock)
  /\ yielded' = Append(yielded, [NoYield EXCEPT ![<<>>] = {NewMock.rootRef.id}])
  /\ invoked' = Append(invoked, NoneInvoked)
  /\ chained' = Append(chained, {})
  /\ mockRegistry' = mockRegistry \cup {n}
  /\ created' = created \cup {n}
  /\ UNCHANGED <<invocationCallCounter, nConfigs, scope>>

\* clearAllMocks()
CallClearAllMocks ==
  /\ mocks' = ClearAllMocks(mocks, mockRegistry).mocks
  /\ mockRegistry' = ClearAllMocks(mocks, mockRegistry).registry
  /\ fresh' = [m \in DOMAIN fresh |->
                 IF m \in mockRegistry THEN RegisteredClear(fresh[m]) ELSE fresh[m]]
  /\ invoked' = [m \in DOMAIN invoked |->
                   IF m \in mockRegistry THEN NoneInvoked ELSE invoked[m]]
  /\ chained' = [m \in DOMAIN chained |->
                   IF m \in mockRegistry THEN {} ELSE chained[m]]
  /\ UNCHANGED <<invocationCallCounter, yielded, nConfigs, scope, created>>

\* resetAllMocks()
CallResetAllMocks ==
  /\ mocks' = ResetAllMocks(mocks, mockRegistry).mocks
  /\ mockRegistry' = ResetAllMocks(mocks, mockRegistry).registry
  /\ created' = {}
  /\ fresh' = [m \in DOMAIN fresh |->
                 IF m \in mockRegistry THEN NewMock ELSE fresh[m]]
  /\ invoked' = [m \in DOMAIN invoked |->
                   IF m \in mockRegistry THEN NoneInvoked ELSE invoked[m]]
  /\ chained' = [m \in DOMAIN chained |->
                   IF m \in mockRegistry THEN {} ELSE chained[m]]
  /\ yielded' = [m \in DOMAIN yielded |->
                   IF m \in mockRegistry
                   THEN [NoYield EXCEPT ![<<>>] = {mocks[m].rootRef.id}]
                   ELSE yielded[m]]
  /\ UNCHANGED <<invocationCallCounter, nConfigs, scope>>

NextBulk ==
  \/ ChainMock
  \/ CallMockReturnValue
  \/ Invoke
  \/ CallClearAllMocks
  \/ CallResetAllMocks

SpecBulk == InitBulk /\ [][NextBulk]_vars

\* Reentrant invocations: implementations that invoke the mock.
InitReentrant == InitWith(ReentrantScope)

NextReentrant ==
  \/ CallMockImplementationOnceReentrant
  \/ CallMockImplementationOnce
  \/ CallMockReturnValue
  \/ Invoke
  \/ Await
  \/ CallMockClear

SpecReentrant == InitReentrant /\ [][NextReentrant]_vars

\* Implementations that return promises.
InitPromise == InitWith(PromiseScope)

NextPromise ==
  \/ CallMockImplementationAwaitable
  \/ Invoke
  \/ SettlePromise
  \/ CallMockClear
  \/ CallMockReset

SpecPromise == InitPromise /\ [][NextPromise]_vars

\* The same without mockClear().
NextPromiseNoClear ==
  \/ CallMockImplementationAwaitable
  \/ Invoke
  \/ SettlePromise
  \/ CallMockReset

SpecPromiseNoClear == InitPromise /\ [][NextPromiseNoClear]_vars

\* Awaits job by job.  The job queue runs every job that is queued: weak
\* fairness of RunMicrotask.
InitAwait == InitWith(AwaitScope)

NextAwait ==
  \/ CallMockResolvedValue
  \/ CallMockResolvedValueNode
  \/ CallMockRejectedValueOnce
  \/ StartAwait
  \/ RunMicrotask

SpecAwait == InitAwait /\ [][NextAwait]_vars /\ WF_vars(RunMicrotask)

\* The same with no Node among the resolved values.
NextAwaitValues ==
  \/ CallMockResolvedValue
  \/ CallMockRejectedValueOnce
  \/ StartAwait
  \/ RunMicrotask

SpecAwaitValues == InitAwait /\ [][NextAwaitValues]_vars /\ WF_vars(RunMicrotask)

\* The invocation-order counter over several mocks.
InitOrder ==
  /\ scope = OrderScope
  /\ mocks = <<>>
  /\ fresh = <<>>
  /\ invocationCallCounter = 1
  /\ yielded = <<>>
  /\ invoked = <<>>
  /\ chained = <<>>
  /\ nConfigs = 0
  /\ mockRegistry = {}
  /\ created = {}

NextOrder ==
  \/ ChainMock
  \/ CallMockImplementationOnceReentrant
  \/ Invoke
  \/ CallMockClear
  \/ CallMockReset
  \/ CallClearAllMocks
  \/ CallResetAllMocks

SpecOrder == InitOrder /\ [][NextOrder]_vars

\* Two mocks side by side, without the bulk operations.
InitPair ==
  /\ scope = PairScope
  /\ mocks = <<>>
  /\ fresh = <<>>
  /\ invocationCallCounter = 1
  /\ yielded = <<>>
  /\ invoked = <<>>
  /\ chained = <<>>
  /\ nConfigs = 0
  /\ mockRegistry = {}
  /\ created = {}

NextPair ==
  \/ ChainMock
  \/ CallMockResolvedValue
  \/ CallMockReturnValueOnce
  \/ Invoke
  \/ Await
  \/ CallMockClear
  \/ CallMockReset

SpecPair == InitPair /\ [][NextPair]_vars

\* ------------------------------------------------------------- observations

\* What the caller can tell of an outcome: its kind, its value and, for a
\* Node, the path it stands for.
AbsRet(ret) == [kind |-> ret.kind, v |-> ret.v, path |-> ret.node.path]

\* The Call Registry of a state, without the receivers (Node identities).
Registry(s) ==
  [calls |-> s.calls, results |-> s.results, settledResults |-> s.settledResults,
   invocationCallOrder |-> s.invocationCallOrder]

\* The configuration of a state.
Config(s) ==
  [resolvedValue |-> s.resolvedValue, resolvedValueQueue |-> s.resolvedValueQueue,
   rejectedValue |-> s.rejectedValue, rejectedValueQueue |-> s.rejectedValueQueue,
   returnValue |-> s.returnValue, returnValueQueue |-> s.returnValueQueue,
   implementation |-> s.implementation, implementationOnce |-> s.implementationOnce,
   mockName |-> s.mockName]

EmptyRegistry(s) ==
  /\ s.calls = <<>> /\ s.results = <<>> /\ s.contexts = <<>> /\ s.instances = <<>>
  /\ s.invocationCallOrder = <<>> /\ s.settledResults = <<>>

\* The proper prefixes of P, the root path included.
Ancestors(P) == {SubSeq(P, 1, n) : n \in 0 .. Len(P) - 1}

\* ------------------------------------------------------------------ C1

\* C1: after mockReset() on the root, whatever the caller does next through
\* the root reference it already held gives the same results and the same
\* registries as the same operations on a newly created mock: every path's
\* registry, and the outcome of every await and every invocation, agree with
\* those of the fresh mock that was given the same operations since the reset.
C1_ResetEqualsFresh ==
  \A m \in DOMAIN mocks :
    mocks[m].gen > 0 =>
      \A P \in AllPaths :
        /\ Registry(View(mocks[m], P)) = Registry(View(fresh[m], P))
        /\ AbsRet(DoThen(mocks[m], P).ret) = AbsRet(DoThen(fresh[m], P).ret)
        /\ \A args \in scope.args :
             AbsRet(DoApply(mocks[m], P, args, invocationCallCounter).ret)
               = AbsRet(DoApply(fresh[m], P, args, invocationCallCounter).ret)

\* C1, the case the specification singles out: a resolved value set on the
\* root after the reset is what awaiting a descendant chain yields.
C1_ResolvedAfterReset ==
  \A m \in DOMAIN mocks :
    (mocks[m].gen > 0 /\ EmptyRegistry(View(mocks[m], <<>>))) =>
      \A P \in scope.callPaths :
        AbsRet(DoThen(mocks[m], P).ret) = AbsRet(DoThen(fresh[m], P).ret)

\* ------------------------------------------------------------------ C2

\* C2: as long as the mock was not reset, every Node the caller is given for
\* a path (by property access, by a setter's return, by an unconfigured
\* invocation's return) is the same Node; and any further access, setter or
\* unconfigured invocation at the path gives that Node again.
C2_NodeIdentity ==
  \A m \in DOMAIN mocks :
    mocks[m].gen = 0 =>
      \A P \in AllPaths :
        /\ Cardinality(yielded[m][P]) <= 1
        /\ \A id \in yielded[m][P] :
             /\ DoGet(mocks[m], P).ret.node.id = id
             /\ DoMockReturnValue(mocks[m], P, Undef).ret.node.id = id
             /\ DoMockName(mocks[m], P, "named").ret.node.id = id
             /\ \A args \in scope.args :
                  LET r == DoApply(mocks[m], P, args, invocationCallCounter).ret
                  IN r.kind = "node" => r.node.id = id

\* A Node for a.b was given by access, and again by an unconfigured
\* invocation, after a setter call returned a Node.
C2_Witness ==
  /\ mocks[1].gen = 0
  /\ nConfigs > 0
  /\ Cardinality(yielded[1][<<"a", "b">>]) = 1
  /\ Cardinality(yielded[1][<<>>]) = 1
  /\ Len(View(mocks[1], <<"a", "b">>).results) > 0
  /\ View(mocks[1], <<"a", "b">>).results[1].type = "incomplete"

\* ------------------------------------------------------------------ C3

\* No implementation, persistent or one-shot, is configured on the state.
NoImplementation(s) == s.implementation = NoImpl /\ s.implementationOnce = <<>>

\* P ends in a name, other than P itself, whose bare-name state has
\* synchronous behaviour configured.
BareNameApplies(mk, P) ==
  Len(P) >= 2 /\ HasConfiguredValue(View(mk, <<P[Len(P)]>>))

\* With a non-empty one-shot return queue on P the invocation of P returns
\* the queue's first entry and removes it; the rest of the configuration stays.
C3QueueFirst(mk, P, args, callOrder) ==
  LET s == View(mk, P)
      r == DoApply(mk, P, args, callOrder)
  IN Len(s.returnValueQueue) > 0 =>
       /\ r.ret = Returned("value", Head(s.returnValueQueue), NoNode)
       /\ Config(View(r.mk, P)) = [Config(s) EXCEPT !.returnValueQueue = Tail(@)]

\* With the queue empty and a persistent return value R the invocation returns
\* R and the configuration stays.
C3ThenPersistent(mk, P, args, callOrder) ==
  LET s == View(mk, P)
      r == DoApply(mk, P, args, callOrder)
  IN (s.returnValueQueue = <<>> /\ s.returnValue # Undef) =>
       /\ r.ret = Returned("value", s.returnValue, NoNode)
       /\ Config(View(r.mk, P)) = Config(s)

\* The outcome is the chainable Node the mock holds for P: the proxy of P's key
\* in the cache, which is the Node the caller invoked as long as the mock was
\* not reset.
IsNodeAt(r, mk, P) ==
  /\ r.ret.kind = "node"
  /\ r.ret.node.path = P
  /\ r.ret.node = r.mk.proxyCache[Join(P)]
  /\ mk.gen = 0 => r.ret.node = Reach(mk, P).node

\* With neither, the invocation returns the Node of P.
C3ThenNode(mk, P, args, callOrder) ==
  LET s == View(mk, P)
      r == DoApply(mk, P, args, callOrder)
  IN (s.returnValueQueue = <<>> /\ s.returnValue = Undef) => IsNodeAt(r, mk, P)

C7_BareNameReturn ==
  \A m \in DOMAIN mocks : \A P \in scope.callPaths : \A args \in scope.args :
    LET name == <<P[Len(P)]>>
        s    == View(mocks[m], name)
        r    == DoApply(mocks[m], P, args, invocationCallCounter)
    IN (Len(P) >= 2 /\ NoImplementation(s)) =>
         /\ Len(s.returnValueQueue) > 0 =>
              /\ r.ret = Returned("value", Head(s.returnValueQueue), NoNode)
              /\ Config(View(r.mk, name)) = [Config(s) EXCEPT !.returnValueQueue = Tail(@)]
         /\ (s.returnValueQueue = <<>> /\ s.returnValue # Undef) =>
              /\ r.ret = Returned("value", s.returnValue, NoNode)
              /\ Config(View(r.mk, name)) = Config(s)
         /\ (/\ ~HasConfiguredValue(s)
             /\ ~HasConfiguredValue(View(mocks[m], P))
             /\ \A Q \in Ancestors(P) : ~HasConfiguredValue(View(mocks[m], Q))) =>
              IsNodeAt(r, mocks[m], P)

\* One one-shot value was queued on b and nothing else configured; the first
\* invocation of a.b returned it and the second returned the Node.
C7_Witness ==
  /\ nConfigs = 1
  /\ View(mocks[1], <<"b">>).returnValueQueue = <<>>
  /\ View(mocks[1], <<"a", "b">>).results =
       <<Result("return", "v1"), Result("incomplete", Undef)>>
  /\ View(mocks[1], <<"b">>).results = <<>>

\* ------------------------------------------------------------------ C4

\* The configuration of every state object of a mock.
ConfigsOf(mk) ==
  [inMap |-> [k \in DOMAIN mk.pathStates |-> Config(mk.pathStates[k])],
   held  |-> Config(mk.heldState)]

\* The state object an await of m.P settles from.
SettlesFrom(mk, P) == UseAsyncState(Reach(mk, P).mk, Reach(mk, P).node)

\* C4: let S be the state an await of a chain settles from, with no rejected
\* value on it.  If S has queued one-shot resolved values the await yields the
\* first of them and removes exactly that entry, every other queue and value
\* of the mock staying as it is; if the queue is empty and a persistent
\* resolved value R is set the await yields R and consumes nothing.  A chain
\* awaited at a path that itself holds such values settles from that path.
\* An invocation, of any path, consumes no resolved value.
C4_ResolvedQueueFifo ==
  \A m \in DOMAIN mocks : \A P \in scope.callPaths :
    LET mk0 == Reach(mocks[m], P).mk
        ref == SettlesFrom(mocks[m], P)
        u   == Deref(mk0, ref)
        r   == DoThen(mocks[m], P)
    IN /\ (u.rejectedValueQueue = <<>> /\ u.rejectedValue = Undef) =>
            /\ Len(u.resolvedValueQueue) > 0 =>
                 /\ r.ret = Returned("fulfilled", Head(u.resolvedValueQueue), NoNode)
                 /\ ConfigsOf(r.mk) =
                      ConfigsOf(SetRef(mk0, ref, [u EXCEPT !.resolvedValueQueue = Tail(@)]))
            /\ (u.resolvedValueQueue = <<>> /\ u.resolvedValue # Undef) =>
                 /\ r.ret = Returned("fulfilled", u.resolvedValue, NoNode)
                 /\ ConfigsOf(r.mk) = ConfigsOf(mk0)
       /\ HasAsyncValue(View(mocks[m], P)) => ref = RefOf(Reach(mocks[m], P).node)
       /\ \A args \in scope.args :
            LET i == DoApply(mocks[m], P, args, invocationCallCounter).mk
            IN /\ i.heldState.resolvedValueQueue = mk0.heldState.resolvedValueQueue
               /\ \A k \in DOMAIN mk0.pathStates :
                    i.pathStates[k].resolvedValueQueue = mk0.pathStates[k].resolvedValueQueue

\* With one one-shot value and the persistent value v2 configured on the root,
\* the await of a yielded the one-shot value and the await of a.b then v2.
C4_Witness ==
  /\ mocks[1].gen = 0
  /\ nConfigs = 2
  /\ View(mocks[1], <<>>).resolvedValueQueue = <<>>
  /\ View(mocks[1], <<>>).resolvedValue = "v2"
  /\ ~HasAsyncValue(View(mocks[1], <<"a">>))
  /\ ~HasAsyncValue(View(mocks[1], <<"a", "b">>))
  /\ View(mocks[1], <<"a">>).results = <<Result("return", "v1")>>
  /\ View(mocks[1], <<"a", "b">>).results = <<Result("return", "v2")>>

\* ------------------------------------------------------------------ C5

\* C5: let S be the state an await settles from.  If S has queued one-shot
\* rejected values the await rejects with the first of them and removes
\* exactly that entry, the resolved values staying as they are; once the
\* rejected queue is empty (no persistent rejected value, no queued resolved
\* value) and a persistent resolved value R is set, the await resolves with R.
C5_RejectedQueueThenResolved ==
  \A m \in DOMAIN mocks : \A P \in scope.callPaths :
    LET mk0 == Reach(mocks[m], P).mk
        ref == SettlesFrom(mocks[m], P)
        u   == Deref(mk0, ref)
        r   == DoThen(mocks[m], P)
    IN /\ Len(u.rejectedValueQueue) > 0 =>
            /\ r.ret = Returned("rejected", Head(u.rejectedValueQueue), NoNode)
            /\ ConfigsOf(r.mk) =
                 ConfigsOf(SetRef(mk0, ref, [u EXCEPT !.rejectedValueQueue = Tail(@)]))
       /\ (/\ u.rejectedValueQueue = <<>> /\ u.rejectedValue = Undef
           /\ u.resolvedValueQueue = <<>> /\ u.resolvedValue # Undef) =>
            /\ r.ret = Returned("fulfilled", u.resolvedValue, NoNode)
            /\ ConfigsOf(r.mk) = ConfigsOf(mk0)

\* With one one-shot rejected value and the persistent resolved value v2 on
\* the root, the await of a rejected with the former and the await of a.b
\* then resolved with v2.
C5_Witness ==
  /\ mocks[1].gen = 0
  /\ nConfigs = 2
  /\ View(mocks[1], <<>>).rejectedValueQueue = <<>>
  /\ View(mocks[1], <<>>).rejectedValue = Undef
  /\ View(mocks[1], <<>>).resolvedValue = "v2"
  /\ ~HasAsyncValue(View(mocks[1], <<"a">>))
  /\ ~HasAsyncValue(View(mocks[1], <<"a", "b">>))
  /\ View(mocks[1], <<"a">>).results = <<Result("throw", "v1")>>
  /\ View(mocks[1], <<"a", "b">>).results = <<Result("return", "v2")>>

\* ------------------------------------------------------------------ C6

\* The nearest path among P and its prefixes, longest first down to the root,
\* on which the caller configured a resolved or rejected value; the outcome an
\* await gets from it; fulfilled with undefined when there is none.
RECURSIVE NearestOutcome(_, _)
NearestOutcome(mk, P) ==
  IF HasAsyncValue(View(mk, P))
  THEN [kind |-> IF TakeSettlement(View(mk, P)).rejected THEN "rejected" ELSE "fulfilled",
        v    |-> TakeSettlement(View(mk, P)).value]
  ELSE IF P = <<>> THEN [kind |-> "fulfilled", v |-> Undef]
  ELSE NearestOutcome(mk, Front(P))

\* C6: awaiting the Node at P settles with the asynchronous outcome of the
\* nearest path among P, its prefixes (longest first) and the root that has a
\* queued or persistent resolved or rejected value, and resolves to undefined
\* when none has one.
C6_NearestAsyncOutcome ==
  \A m \in DOMAIN mocks : \A P \in scope.callPaths :
    LET r == DoThen(mocks[m], P).ret
    IN [kind |-> r.kind, v |-> r.v] = NearestOutcome(mocks[m], P)

\* The same before any reset: the lookup is as described until mockReset().
C6BeforeReset ==
  \A m \in DOMAIN mocks : \A P \in scope.callPaths :
    LET r == DoThen(mocks[m], P).ret
    IN mocks[m].gen = 0 => [kind |-> r.kind, v |-> r.v] = NearestOutcome(mocks[m], P)

\* ------------------------------------------------------------------ C8

\* C8: for every path P, the calls list the caller reads at P is the list of
\* the argument lists of the invocations of P made since the mock was created
\* or last cleared or reset, in order; and one more invocation of P, whatever
\* its behaviour, appends its argument list.
C8_CallsAreInvocations ==
  \A m \in DOMAIN mocks : \A P \in AllPaths :
    /\ View(mocks[m], P).calls = invoked[m][P]
    /\ \A args \in scope.args :
         View(DoApply(mocks[m], P, args, invocationCallCounter).mk, P).calls
           = Append(invoked[m][P], args)

\* The same before any reset.
C8BeforeReset ==
  \A m \in DOMAIN mocks : \A P \in AllPaths :
    mocks[m].gen = 0 =>
      /\ View(mocks[m], P).calls = invoked[m][P]
      /\ \A args \in scope.args :
           View(DoApply(mocks[m], P, args, invocationCallCounter).mk, P).calls
             = Append(invoked[m][P], args)

\* ------------------------------------------------------------------ C9

C10_ClearEmptiesEveryRegistry ==
  \A m \in DOMAIN mocks : \A P \in AllPaths :
    EmptyRegistry(View(DoMockClear(mocks[m], <<>>).mk, P))

\* The same before any reset.
C10BeforeReset ==
  \A m \in DOMAIN mocks : \A P \in AllPaths :
    mocks[m].gen = 0 => EmptyRegistry(View(DoMockClear(mocks[m], <<>>).mk, P))

\* ------------------------------------------------------------------ C11

\* C11: immediately after mockReset() on the root, as the caller sees it
\* through the root reference it holds, every path's Call Registry is empty,
\* the root's included; no path has a configured value, implementation,
\* one-shot queue entry or name left; and invoking the root returns the
\* chainable root Node.
C11_ResetErasesEverything ==
  \A m \in DOMAIN mocks :
    LET r == DoMockReset(mocks[m], <<>>)
    IN /\ r.ret.kind = "node"
       /\ \A P \in AllPaths :
            /\ EmptyRegistry(View(r.mk, P))
            /\ Config(View(r.mk, P)) = Config(NewState)
       /\ \A args \in scope.args :
            DoApply(r.mk, <<>>, args, invocationCallCounter).ret.kind = "node"

\* The same for the paths other than the root: their registries and their
\* configuration are gone after the reset.
C11BelowRoot ==
  \A m \in DOMAIN mocks :
    LET r == DoMockReset(mocks[m], <<>>)
    IN /\ r.ret.kind = "node"
       /\ \A P \in AllPaths \ {<<>>} :
            /\ EmptyRegistry(View(r.mk, P))
            /\ Config(View(r.mk, P)) = Config(NewState)

\* ------------------------------------------------------------------ C12

\* C12: mockClear() or mockReset() invoked on a Node other than the root
\* throws the usage error and changes nothing: the maps of the mock (every
\* state's registry, configuration and queues, every cached Node) are the
\* same after the call, and so is what the caller reads at every path.
C12_NestedLifecycleThrows ==
  \A m \in DOMAIN mocks : \A P \in AllPaths \ {<<>>} :
    LET t == Reach(mocks[m], P)
        c == MockClear(t.mk, t.node)
        r == MockReset(t.mk, t.node)
    IN /\ c.ret = UsageError /\ c.mk = t.mk
       /\ r.ret = UsageError /\ r.mk = t.mk
       /\ \A Q \in AllPaths :
            /\ View(DoMockClear(mocks[m], P).mk, Q) = View(mocks[m], Q)
            /\ View(DoMockReset(mocks[m], P).mk, Q) = View(mocks[m], Q)
            /\ Reach(DoMockClear(mocks[m], P).mk, Q).node = Reach(mocks[m], Q).node
            /\ Reach(DoMockReset(mocks[m], P).mk, Q).node = Reach(mocks[m], Q).node

\* mockClear() or mockReset() was called on a (a was reached, with no setter
\* call made and a.b never reached, which no other operation does) after two
\* invocations of the root, and the root's two calls are still recorded.
C12_Witness ==
  /\ mocks[1].gen = 0
  /\ nConfigs = 0
  /\ Cardinality(yielded[1][<<"a">>]) = 1
  /\ yielded[1][<<"a", "b">>] = {}
  /\ Len(View(mocks[1], <<>>).calls) = 2

\* ------------------------------------------------------- matcher inputs

\* expect(m.P).matcher(..): the matcher applied to the Node the caller reaches
\* at P.
CalledAt(mk, P) == ToHaveBeenChainCalled(Reach(mk, P).mk, Reach(mk, P).node)
CalledTimesAt(mk, P, expected) ==
  ToHaveBeenChainCalledTimes(Reach(mk, P).mk, Reach(mk, P).node, expected)
ExactlyOnceAt(mk, P) ==
  ToHaveBeenChainCalledExactlyOnce(Reach(mk, P).mk, Reach(mk, P).node)
ExactlyOnceWithAt(mk, P, argsPerSegment) ==
  ToHaveBeenChainCalledExactlyOnceWith(Reach(mk, P).mk, Reach(mk, P).node, argsPerSegment)
CalledWithAt(mk, P, argsPerSegment) ==
  ToHaveBeenChainCalledWith(Reach(mk, P).mk, Reach(mk, P).node, argsPerSegment)
NthCalledWithAt(mk, P, n, argsPerSegment) ==
  ToHaveBeenNthChainCalledWith(Reach(mk, P).mk, Reach(mk, P).node, n, argsPerSegment)
LastCalledWithAt(mk, P, argsPerSegment) ==
  ToHaveBeenLastChainCalledWith(Reach(mk, P).mk, Reach(mk, P).node, argsPerSegment)

\* The lists of expected argument arrays a matcher is given, of every length
\* up to MaxExpected, and the lists with one array per segment of P.
ExpectedLists == UNION {[1 .. k -> scope.args] : k \in 0 .. MaxExpected}
ExpectedFor(P) == [1 .. Len(P) -> scope.args]

\* The targets with at least one segment.
Targets == AllPaths \ {<<>>}

\* The calls the caller reads at the j-th segment of P.
CallsOfSegment(mk, P, j) == View(mk, SubSeq(P, 1, j)).calls

\* ------------------------------------------------------------------ C13

\* C13: every matcher invoked on the root Node raises a usage error, so that
\* neither expect(m).matcher(..) nor expect(m).not.matcher(..) succeeds.
C13_RootMatcherThrows ==
  \A m \in DOMAIN mocks : \A lst \in ExpectedLists : \A n \in 0 .. MaxNth :
    \A result \in {CalledAt(mocks[m], <<>>),
                   CalledTimesAt(mocks[m], <<>>, n),
                   ExactlyOnceAt(mocks[m], <<>>),
                   ExactlyOnceWithAt(mocks[m], <<>>, lst),
                   CalledWithAt(mocks[m], <<>>, lst),
                   NthCalledWithAt(mocks[m], <<>>, n, lst),
                   LastCalledWithAt(mocks[m], <<>>, lst)} :
      /\ result.threw
      /\ ~Expect(result, FALSE)
      /\ ~Expect(result, TRUE)

\* ------------------------------------------------------------------ C14

\* C14: a "with args" matcher given a number of argument arrays other than
\* the number of segments, and an nth matcher given n < 1, raise a usage
\* error, so that the negated assertion does not succeed either.
C14_BadArgumentsThrow ==
  \A m \in DOMAIN mocks : \A P \in Targets : \A lst \in ExpectedLists :
    /\ Len(lst) # Len(P) =>
         \A result \in {ExactlyOnceWithAt(mocks[m], P, lst),
                        CalledWithAt(mocks[m], P, lst),
                        LastCalledWithAt(mocks[m], P, lst)} \cup
                       {NthCalledWithAt(mocks[m], P, n, lst) : n \in 0 .. MaxNth} :
           result.threw /\ ~Expect(result, TRUE)
    /\ NthCalledWithAt(mocks[m], P, 0, lst).threw
    /\ ~Expect(NthCalledWithAt(mocks[m], P, 0, lst), TRUE)

\* ------------------------------------------------------------------ C15

\* At call index i (counted from 1) every segment of P has a call, and the
\* call of the j-th segment equals the j-th expected array.
MatchesAtIndex(mk, P, lst, i) ==
  \A j \in 1 .. Len(P) :
    /\ Len(CallsOfSegment(mk, P, j)) >= i
    /\ CallsOfSegment(mk, P, j)[i] = lst[j]

C16_MadeChainPasses ==
  \A m \in DOMAIN mocks : \A c \in chained[m] :
    CalledWithAt(mocks[m], c.path, c.args).pass

\* ------------------------------------------------------------------ C17

\* C17: whatever complete and partial chain invocations were made,
\* toHaveBeenChainCalledWith(a1, .., ak) on m.s1...sk passes only if one
\* single chain invocation passed a1 to s1, ..., ak to sk.
C17_PassMeansOneChain ==
  \A m \in DOMAIN mocks : \A P \in Targets : \A lst \in ExpectedFor(P) :
    CalledWithAt(mocks[m], P, lst).pass =>
      \E c \in chained[m] :
        /\ IsPrefix(P, c.path)
        /\ \A j \in 1 .. Len(P) : c.args[j] = lst[j]

\* C16 and C17 where no chain stopped short of a.b: every chain invocation
\* went through both segments.
C16C17FullChainsOnly ==
  \A m \in DOMAIN mocks :
    (\A c \in chained[m] : c.path = <<"a", "b">>) =>
      /\ \A c \in chained[m] : CalledWithAt(mocks[m], c.path, c.args).pass
      /\ \A lst \in ExpectedFor(<<"a", "b">>) :
           CalledWithAt(mocks[m], <<"a", "b">>, lst).pass =>
             [path |-> <<"a", "b">>, args |-> lst] \in chained[m]

\* ------------------------------------------------------------------ C18

\* The largest number of calls the caller reads at a segment of P.
MaxRegistryLength(mk, P) ==
  CHOOSE n \in {Len(CallsOfSegment(mk, P, j)) : j \in 1 .. Len(P)} :
    \A j \in 1 .. Len(P) : n >= Len(CallsOfSegment(mk, P, j))

C19_AsStated ==
  \A m \in DOMAIN mocks : \A P \in Targets : \A lst \in ExpectedFor(P) :
    LastCalledWithAt(mocks[m], P, lst).pass <=>
      \A j \in 1 .. Len(P) :
        /\ Len(CallsOfSegment(mocks[m], P, j)) >= 1
        /\ CallsOfSegment(mocks[m], P, j)[Len(CallsOfSegment(mocks[m], P, j))] = lst[j]

\* What toHaveBeenLastChainCalledWith computes: it passes if and only if all
\* segments have the same number n >= 1 of recorded calls and each segment's
\* n-th (most recent) call equals its expected array; when a segment has
\* fewer calls than another (partial chains) it fails.
LastNeedsEqualCounts ==
  \A m \in DOMAIN mocks : \A P \in Targets : \A lst \in ExpectedFor(P) :
    LastCalledWithAt(mocks[m], P, lst).pass <=>
      /\ Len(CallsOfSegment(mocks[m], P, 1)) >= 1
      /\ \A j \in 1 .. Len(P) :
           /\ Len(CallsOfSegment(mocks[m], P, j)) = Len(CallsOfSegment(mocks[m], P, 1))
           /\ CallsOfSegment(mocks[m], P, j)[Len(CallsOfSegment(mocks[m], P, 1))] = lst[j]

\* After the chain a(x).b(y) and the partial chain a(y), the most recent call
\* of a is y and that of a.b is y, and the matcher fails for (y, y).
C19PartialChain ==
  /\ CallsOfSegment(mocks[1], <<"a", "b">>, 1) = <<<<"x">>, <<"y">>>>
  /\ CallsOfSegment(mocks[1], <<"a", "b">>, 2) = <<<<"y">>>>
  /\ chained[1] = {[path |-> <<"a", "b">>, args |-> <<<<"x">>, <<"y">>>>],
                   [path |-> <<"a">>, args |-> <<<<"y">>>>]}
  /\ ~LastCalledWithAt(mocks[1], <<"a", "b">>, <<<<"y">>, <<"y">>>>).pass

\* ------------------------------------------------------------------ C20

\* C20: toHaveBeenNthChainCalledWith(n, args) with n >= 1 and one array per
\* segment passes if and only if every segment has at least n recorded calls
\* and each segment's n-th call (counted from 1) equals its expected array.
C20_NthCalledWith ==
  \A m \in DOMAIN mocks : \A P \in Targets : \A lst \in ExpectedFor(P) :
    \A n \in 1 .. MaxNth :
      /\ ~NthCalledWithAt(mocks[m], P, n, lst).threw
      /\ NthCalledWithAt(mocks[m], P, n, lst).pass <=>
           \A j \in 1 .. Len(P) :
             /\ Len(CallsOfSegment(mocks[m], P, j)) >= n
             /\ CallsOfSegment(mocks[m], P, j)[n] = lst[j]

\* After the chains a(x).b(x) and a(y).b(y): the second call is (y, y), not
\* (x, x), and there is no third call.
C20_Witness ==
  /\ CallsOfSegment(mocks[1], <<"a", "b">>, 1) = <<<<"x">>, <<"y">>>>
  /\ CallsOfSegment(mocks[1], <<"a", "b">>, 2) = <<<<"x">>, <<"y">>>>
  /\ NthCalledWithAt(mocks[1], <<"a", "b">>, 2, <<<<"y">>, <<"y">>>>).pass
  /\ ~NthCalledWithAt(mocks[1], <<"a", "b">>, 2, <<<<"x">>, <<"x">>>>).pass
  /\ ~NthCalledWithAt(mocks[1], <<"a", "b">>, 3, <<<<"y">>, <<"y">>>>).pass

\* ------------------------------------------------------------------ C21

\* C21: toHaveBeenChainCalledTimes(n) on a target with at least one segment
\* passes if and only if every segment has exactly n recorded calls, and
\* toHaveBeenChainCalledExactlyOnce gives the result of
\* toHaveBeenChainCalledTimes(1).
C21_CalledTimesEverySegment ==
  \A m \in DOMAIN mocks : \A P \in Targets :
    /\ \A n \in 0 .. MaxNth :
         /\ ~CalledTimesAt(mocks[m], P, n).threw
         /\ CalledTimesAt(mocks[m], P, n).pass <=>
              \A j \in 1 .. Len(P) : Len(CallsOfSegment(mocks[m], P, j)) = n
    /\ ExactlyOnceAt(mocks[m], P) = CalledTimesAt(mocks[m], P, 1)

\* After the chains a(..) and a(..).b(..), a has two calls and a.b one: a.b
\* was called neither once nor twice as a chain, while a was called twice.
C21_Witness ==
  /\ Len(CallsOfSegment(mocks[1], <<"a", "b">>, 1)) = 2
  /\ Len(CallsOfSegment(mocks[1], <<"a", "b">>, 2)) = 1
  /\ ~CalledTimesAt(mocks[1], <<"a", "b">>, 1).pass
  /\ ~CalledTimesAt(mocks[1], <<"a", "b">>, 2).pass
  /\ ~ExactlyOnceAt(mocks[1], <<"a", "b">>).pass
  /\ CalledTimesAt(mocks[1], <<"a">>, 2).pass

\* ------------------------------------------------------------------ C22

\* C22: toHaveBeenChainCalled on a target with at least one segment passes
\* if and only if every segment has at least one recorded call; when some
\* segment was never called the negated assertion succeeds.
C22_CalledEverySegment ==
  \A m \in DOMAIN mocks : \A P \in Targets :
    /\ ~CalledAt(mocks[m], P).threw
    /\ CalledAt(mocks[m], P).pass <=>
         \A j \in 1 .. Len(P) : Len(CallsOfSegment(mocks[m], P, j)) >= 1
    /\ (\E j \in 1 .. Len(P) : Len(CallsOfSegment(mocks[m], P, j)) = 0)
         => Expect(CalledAt(mocks[m], P), TRUE)

\* a was called and a.b never: the negated assertion on a.b succeeds.
C22_Witness ==
  /\ Len(CallsOfSegment(mocks[1], <<"a", "b">>, 1)) >= 1
  /\ Len(CallsOfSegment(mocks[1], <<"a", "b">>, 2)) = 0
  /\ Expect(CalledAt(mocks[1], <<"a", "b">>), TRUE)
  /\ Expect(CalledAt(mocks[1], <<"a">>), FALSE)

\* ------------------------------------------------------------------ C23

\* The state whose synchronous behaviour the invocation of P uses.
UsedBy(mk, P) == UseSyncState(Reach(mk, P).mk, Reach(mk, P).node)

\* C23: when the implementation picked for an invocation of P throws, the
\* invocation is recorded on P (arguments, receiver, invocation order) with
\* result 'throw' and settlement 'rejected' and the thrown value, a one-shot
\* implementation is removed from its queue and nothing else of the
\* configuration changes, and the thrown value reaches the caller.
C23_ThrowIsRecorded ==
  \A m \in DOMAIN mocks : \A P \in scope.callPaths : \A args \in scope.args :
    LET mk   == mocks[m]
        uref == UsedBy(mk, P)
        u    == Deref(Reach(mk, P).mk, uref)
        impl == PickImpl(u)
        s    == View(mk, P)
        r    == DoApply(mk, P, args, invocationCallCounter)
        t    == View(r.mk, P)
    IN (impl # NoImpl /\ impl.kind = "throw") =>
         /\ r.ret = Returned("throw", impl.v, NoNode)
         /\ t.calls = Append(s.calls, args)
         /\ t.contexts = Append(s.contexts, Receiver(mk, P))
         /\ t.invocationCallOrder = Append(s.invocationCallOrder, invocationCallCounter)
         /\ t.results = Append(s.results, Result("throw", impl.v))
         /\ t.settledResults = Append(s.settledResults, Result("rejected", impl.v))
         /\ Config(Deref(r.mk, uref)) =
              [Config(u) EXCEPT !.implementationOnce = Shift(@)]

\* A one-shot implementation that throws was set for a.b and a.b was invoked:
\* the throw is recorded and the implementation is gone.
C23_Witness ==
  /\ View(mocks[1], <<"a", "b">>).results = <<Result("throw", "e1")>>
  /\ View(mocks[1], <<"a", "b">>).settledResults = <<Result("rejected", "e1")>>
  /\ View(mocks[1], <<"a", "b">>).calls = <<<<"x">>>>
  /\ \A Q \in AllPaths : NoImplementation(View(mocks[1], Q))
  /\ mocks[1].gen = 0

\* ------------------------------------------------------------------ C24

\* C24: an await of the Node at P writes its outcome (return/fulfilled, or
\* throw/rejected, with the value) over the last entry of P's own results and
\* settledResults, also when the value came from another state; the rest of
\* P's registry and the registry of every other path stay as they were, and a
\* rejection reaches the caller through its rejection callback.
C24_OutcomeOnAwaitedPath ==
  \A m \in DOMAIN mocks : \A P \in scope.callPaths :
    LET mk   == mocks[m]
        take == TakeSettlement(Deref(Reach(mk, P).mk, SettlesFrom(mk, P)))
        s    == View(mk, P)
        r    == DoThen(mk, P)
        t    == View(r.mk, P)
    IN /\ r.ret = Returned(IF take.rejected THEN "rejected" ELSE "fulfilled",
                           take.value, NoNode)
       /\ t.results = SetLastElem(s.results,
            Result(IF take.rejected THEN "throw" ELSE "return", take.value))
       /\ t.settledResults = SetLastElem(s.settledResults,
            Result(IF take.rejected THEN "rejected" ELSE "fulfilled", take.value))
       /\ t.calls = s.calls
       /\ t.contexts = s.contexts
       /\ t.invocationCallOrder = s.invocationCallOrder
       /\ \A Q \in AllPaths \ {P} : Registry(View(r.mk, Q)) = Registry(View(mk, Q))

\* A rejected value is set on a and nothing on a.b; a and a.b were invoked and
\* a.b awaited: the rejection is in a.b's entry and a's entry is untouched.
C24_Witness ==
  /\ View(mocks[1], <<"a">>).rejectedValue # Undef
  /\ ~HasAsyncValue(View(mocks[1], <<"a", "b">>))
  /\ View(mocks[1], <<"a", "b">>).results =
       <<Result("throw", View(mocks[1], <<"a">>).rejectedValue)>>
  /\ View(mocks[1], <<"a", "b">>).settledResults =
       <<Result("rejected", View(mocks[1], <<"a">>).rejectedValue)>>
  /\ View(mocks[1], <<"a">>).results = <<Result("incomplete", Undef)>>
  /\ mocks[1].gen = 0

\* ------------------------------------------------------------------ C25

C26_BulkCoversEveryMock ==
  \A m \in DOMAIN mocks : \A P \in AllPaths :
    /\ EmptyRegistry(View(ClearAllMocks(mocks, mockRegistry).mocks[m], P))
    /\ EmptyRegistry(View(ResetAllMocks(mocks, mockRegistry).mocks[m], P))
    /\ Config(View(ResetAllMocks(mocks, mockRegistry).mocks[m], P)) = Config(NewState)

\* The same for the paths below the root only (the root Node a caller holds
\* keeps its state over a mockReset()); a mock that is no longer in the
\* registry is left as it is.
C26BelowRoot ==
  \A m \in DOMAIN mocks : \A P \in AllPaths \ {<<>>} :
    /\ EmptyRegistry(View(ClearAllMocks(mocks, mockRegistry).mocks[m], P))
    /\ EmptyRegistry(View(ResetAllMocks(mocks, mockRegistry).mocks[m], P))
    /\ Config(View(ResetAllMocks(mocks, mockRegistry).mocks[m], P)) = Config(NewState)

\* For the mocks that were never reset the bulk operations do as stated.
C26NeverReset ==
  \A m \in DOMAIN mocks : \A P \in AllPaths :
    mocks[m].gen = 0 =>
      /\ m \in mockRegistry
      /\ EmptyRegistry(View(ClearAllMocks(mocks, mockRegistry).mocks[m], P))
      /\ P # <<>> =>
           /\ EmptyRegistry(View(ResetAllMocks(mocks, mockRegistry).mocks[m], P))
           /\ Config(View(ResetAllMocks(mocks, mockRegistry).mocks[m], P)) = Config(NewState)

\* ------------------------------------------------------------------ C27

\* The paths looked at for an invocation of P = [..., name], in order: the
\* top-level path [name], P, the prefixes of P from the longest to the root.
LookupOrder(P) ==
  [i \in 1 .. Len(P) + 2 |->
     IF i = 1 THEN <<P[Len(P)]>> ELSE SubSeq(P, 1, Len(P) + 2 - i)]

\* The place in LookupOrder(P) of the first path on which the caller has
\* synchronous behaviour configured; 0 when there is none.
FirstConfigured(mk, P) ==
  LET hits == {i \in DOMAIN LookupOrder(P) : HasConfiguredValue(View(mk, LookupOrder(P)[i]))}
  IN IF hits = {} THEN 0 ELSE CHOOSE i \in hits : \A j \in hits : i <= j

\* What a state with synchronous behaviour gives an invocation.
SyncOutcome(s) ==
  IF PickImpl(s) # NoImpl
  THEN [kind |-> IF PickImpl(s).kind = "return" THEN "value" ELSE "throw",
        v    |-> PickImpl(s).v]
  ELSE [kind |-> "value", v |-> TakeReturnValue(s).value]

\* The invocation of P behaves as the first configured path of LookupOrder(P)
\* says, and returns a Node when there is none.
FollowsLookupOrder(mk, P, args, callOrder) ==
  LET i == FirstConfigured(mk, P)
      r == DoApply(mk, P, args, callOrder).ret
  IN IF i = 0 THEN r.kind = "node"
     ELSE [kind |-> r.kind, v |-> r.v] = SyncOutcome(View(mk, LookupOrder(P)[i]))

\* C27: the invocation of a path P = [..., name] of length >= 2 takes its
\* synchronous behaviour from the first path with an implementation or a
\* return value configured among: [name], P, the prefixes of P from longest
\* to shortest, the root.
C27_SyncLookupOrder ==
  \A m \in DOMAIN mocks : \A P \in scope.callPaths : \A args \in scope.args :
    Len(P) >= 2 => FollowsLookupOrder(mocks[m], P, args, invocationCallCounter)

\* The same before any reset.
C27BeforeReset ==
  \A m \in DOMAIN mocks : \A P \in scope.callPaths : \A args \in scope.args :
    (Len(P) >= 2 /\ mocks[m].gen = 0) =>
      FollowsLookupOrder(mocks[m], P, args, invocationCallCounter)

\* ------------------------------------------------------------------ C28

\* What an implementation gives the caller.
ImplOutcome(impl) ==
  Returned(IF impl.kind = "return" THEN "value" ELSE "throw", impl.v, NoNode)

\* C28: within the state an invocation uses, the behaviour is the oldest
\* one-shot implementation (removed), else the persistent implementation,
\* else the oldest one-shot return value (removed), else the persistent
\* return value; nothing else of the configuration changes, so a persistent
\* implementation keeps the queued return values from being consumed.
C28_SelectionOrder ==
  \A m \in DOMAIN mocks : \A P \in scope.callPaths : \A args \in scope.args :
    LET mk   == mocks[m]
        uref == UsedBy(mk, P)
        u    == Deref(Reach(mk, P).mk, uref)
        r    == DoApply(mk, P, args, invocationCallCounter)
        c    == Config(Deref(r.mk, uref))
    IN /\ Len(u.implementationOnce) > 0 =>
            /\ r.ret = ImplOutcome(Head(u.implementationOnce))
            /\ c = [Config(u) EXCEPT !.implementationOnce = Tail(@)]
       /\ (u.implementationOnce = <<>> /\ u.implementation # NoImpl) =>
            /\ r.ret = ImplOutcome(u.implementation)
            /\ c = Config(u)
       /\ (NoImplementation(u) /\ Len(u.returnValueQueue) > 0) =>
            /\ r.ret = Returned("value", Head(u.returnValueQueue), NoNode)
            /\ c = [Config(u) EXCEPT !.returnValueQueue = Tail(@)]
       /\ (NoImplementation(u) /\ u.returnValueQueue = <<>> /\ u.returnValue # Undef) =>
            /\ r.ret = Returned("value", u.returnValue, NoNode)
            /\ c = Config(u)

\* a.b has a persistent implementation and a queued one-shot return value,
\* and was invoked: the result is the implementation's and the value is
\* still queued.
C28_Witness ==
  /\ View(mocks[1], <<"a", "b">>).implementation = [kind |-> "return", v |-> "v1"]
  /\ View(mocks[1], <<"a", "b">>).returnValueQueue = <<"v2">>
  /\ View(mocks[1], <<"a", "b">>).results = <<Result("return", "v1")>>
  /\ View(mocks[1], <<"a", "b">>).invocationCallOrder = <<1>>
  /\ UsedBy(mocks[1], <<"a", "b">>) = MapRef("a.b")
  /\ DoApply(mocks[1], <<"a", "b">>, <<"x">>, invocationCallCounter).ret
       = Returned("value", "v1", NoNode)

\* ------------------------------------------------------------------ C29

\* C29: an await of the Node at P leaves P's last registry entry as it is
\* when that entry was finalized by the invocation (its result is no longer
\* 'incomplete').
C29_FinalizedEntryKept ==
  \A m \in DOMAIN mocks : \A P \in scope.callPaths :
    LET s == View(mocks[m], P)
        t == View(DoThen(mocks[m], P).mk, P)
    IN (Len(s.results) >= 1 /\ s.results[Len(s.results)].type # "incomplete") =>
         /\ t.results = s.results
         /\ t.settledResults = s.settledResults

\* What the then handler does keep: the entries before the last one.
C29EarlierEntriesKept ==
  \A m \in DOMAIN mocks : \A P \in scope.callPaths :
    LET s == View(mocks[m], P)
        t == View(DoThen(mocks[m], P).mk, P)
    IN /\ Len(t.results) = Len(s.results)
       /\ Len(t.settledResults) = Len(s.settledResults)
       /\ \A i \in 1 .. Len(s.results) - 1 :
            t.results[i] = s.results[i] /\ t.settledResults[i] = s.settledResults[i]

\* ------------------------------------------------------------------ C30

\* The five registry arrays of a state have one length.
SameLengths(s) ==
  /\ Len(s.results) = Len(s.calls)
  /\ Len(s.settledResults) = Len(s.calls)
  /\ Len(s.contexts) = Len(s.calls)
  /\ Len(s.invocationCallOrder) = Len(s.calls)

\* The invocation e is recorded at one index of its path's registry: its
\* invocation-order number, its arguments, its result and its settlement.
RecordedAtOneIndex(mk, e) ==
  LET t == View(mk, e.path) IN
  \E i \in DOMAIN t.calls :
    /\ t.invocationCallOrder[i] = e.order
    /\ t.calls[i] = e.args
    /\ t.results[i] = e.result
    /\ t.settledResults[i] = e.settled

\* C30: on every path the registry arrays have the same length, and so they
\* have after one more invocation, each invocation completed by it (the one
\* the caller made and those its implementation made) having its result and
\* settlement at the index of its arguments.
C30_RegistryAligned ==
  \A m \in DOMAIN mocks :
    /\ \A Q \in AllPaths : SameLengths(View(mocks[m], Q))
    /\ \A P \in scope.callPaths : \A args \in scope.args :
         LET r == DoApply(mocks[m], P, args, invocationCallCounter)
         IN /\ \A Q \in AllPaths : SameLengths(View(r.mk, Q))
            /\ \A k \in DOMAIN r.log : RecordedAtOneIndex(r.mk, r.log[k])

\* What does hold with reentrant invocations: the lengths agree, and an
\* invocation whose implementation invokes no path is recorded at one index.
C30LengthsAndPlainCalls ==
  \A m \in DOMAIN mocks :
    /\ \A Q \in AllPaths : SameLengths(View(mocks[m], Q))
    /\ \A P \in scope.callPaths : \A args \in scope.args :
         LET r == DoApply(mocks[m], P, args, invocationCallCounter)
         IN /\ \A Q \in AllPaths : SameLengths(View(r.mk, Q))
            /\ Len(r.log) = 1 => RecordedAtOneIndex(r.mk, r.log[1])

\* ------------------------------------------------------------------ C37

\* C37: on the state an await uses, the outcome is the oldest one-shot
\* rejected value (removed), else the persistent rejected value, else the
\* oldest one-shot resolved value (removed), else the persistent resolved
\* value; nothing else of the configuration changes, so that a persistent
\* rejected value keeps the queued resolved values from being consumed.
C37_RejectedBeforeResolved ==
  \A m \in DOMAIN mocks : \A P \in scope.callPaths :
    LET mk   == mocks[m]
        uref == SettlesFrom(mk, P)
        u    == Deref(Reach(mk, P).mk, uref)
        r    == DoThen(mk, P)
        c    == Config(Deref(r.mk, uref))
    IN /\ Len(u.rejectedValueQueue) > 0 =>
            /\ r.ret = Returned("rejected", Head(u.rejectedValueQueue), NoNode)
            /\ c = [Config(u) EXCEPT !.rejectedValueQueue = Tail(@)]
       /\ (u.rejectedValueQueue = <<>> /\ u.rejectedValue # Undef) =>
            /\ r.ret = Returned("rejected", u.rejectedValue, NoNode)
            /\ c = Config(u)
       /\ (u.rejectedValueQueue = <<>> /\ u.rejectedValue = Undef
           /\ Len(u.resolvedValueQueue) > 0) =>
            /\ r.ret = Returned("fulfilled", Head(u.resolvedValueQueue), NoNode)
            /\ c = [Config(u) EXCEPT !.resolvedValueQueue = Tail(@)]
       /\ (u.rejectedValueQueue = <<>> /\ u.rejectedValue = Undef
           /\ u.resolvedValueQueue = <<>>) =>
            /\ r.ret = Returned("fulfilled", u.resolvedValue, NoNode)
            /\ c = Config(u)

\* a has a persistent rejected value and a queued one-shot resolved value,
\* was invoked and awaited: the await rejected and the value is still queued.
C37_Witness ==
  /\ View(mocks[1], <<"a">>).rejectedValue = "v1"
  /\ View(mocks[1], <<"a">>).resolvedValueQueue = <<"v2">>
  /\ View(mocks[1], <<"a">>).results = <<Result("throw", "v1")>>
  /\ View(mocks[1], <<"a">>).settledResults = <<Result("rejected", "v1")>>
  /\ mocks[1].gen = 0

\* ------------------------------------------------------------------ C34

\* The configuration an await reads and the configuration an invocation
\* reads.
AsyncConfig(s) ==
  [resolvedValue |-> s.resolvedValue, resolvedValueQueue |-> s.resolvedValueQueue,
   rejectedValue |-> s.rejectedValue, rejectedValueQueue |-> s.rejectedValueQueue]
SyncConfig(s) ==
  [returnValue |-> s.returnValue, returnValueQueue |-> s.returnValueQueue,
   implementation |-> s.implementation, implementationOnce |-> s.implementationOnce]

\* The lengths of the registry arrays.
RegistryLengths(s) ==
  <<Len(s.calls), Len(s.results), Len(s.settledResults), Len(s.contexts),
    Len(s.invocationCallOrder)>>

\* C34: the invocation of P appends exactly one entry to each registry array
\* of P and leaves the registry of every other path and the resolved and
\* rejected values of every path as they are; an await of P leaves the length
\* of every registry array and the return values and implementations of every
\* path as they are.
C34_FrameOfInvokeAndAwait ==
  \A m \in DOMAIN mocks : \A P \in scope.callPaths :
    LET mk == mocks[m]
        s  == View(mk, P)
        t  == DoThen(mk, P).mk
    IN /\ \A args \in scope.args :
            LET r == DoApply(mk, P, args, invocationCallCounter).mk IN
            /\ View(r, P).calls = Append(s.calls, args)
            /\ View(r, P).invocationCallOrder = Append(s.invocationCallOrder, invocationCallCounter)
            /\ View(r, P).contexts = Append(s.contexts, Receiver(mk, P))
            /\ Len(View(r, P).results) = Len(s.results) + 1
            /\ Len(View(r, P).settledResults) = Len(s.settledResults) + 1
            /\ \A i \in DOMAIN s.results :
                 /\ View(r, P).results[i] = s.results[i]
                 /\ View(r, P).settledResults[i] = s.settledResults[i]
            /\ \A Q \in AllPaths \ {P} : Registry(View(r, Q)) = Registry(View(mk, Q))
            /\ \A Q \in AllPaths : AsyncConfig(View(r, Q)) = AsyncConfig(View(mk, Q))
       /\ \A Q \in AllPaths :
            /\ RegistryLengths(View(t, Q)) = RegistryLengths(View(mk, Q))
            /\ SyncConfig(View(t, Q)) = SyncConfig(View(mk, Q))

\* A return value is set on a and a.b was invoked: the invocation is
\* recorded on a.b and not on a, and the value is still set.
C34_Witness ==
  /\ View(mocks[1], <<"a">>).returnValue = "v1"
  /\ View(mocks[1], <<"a", "b">>).results = <<Result("return", "v1")>>
  /\ View(mocks[1], <<"a", "b">>).calls = <<<<"x">>>>
  /\ View(mocks[1], <<"a">>).calls = <<>>
  /\ View(mocks[1], <<>>).calls = <<>>
  /\ Len(View(DoThen(mocks[1], <<"a", "b">>).mk, <<"a", "b">>).calls) = 1

\* ------------------------------------------------------------------ C35

\* The invocationCallOrder arrays of a mock: those of the states of its map
\* and that of the root state the caller's root Node closes over.
OrderArrays(mk) ==
  [k \in DOMAIN mk.pathStates |-> mk.pathStates[k].invocationCallOrder]
OrderNumbers(mk) ==
  UNION {{OrderArrays(mk)[k][i] : i \in DOMAIN OrderArrays(mk)[k]} : k \in DOMAIN mk.pathStates}
    \cup {mk.heldState.invocationCallOrder[i] : i \in DOMAIN mk.heldState.invocationCallOrder}
OrderCount(mk) ==
  LET keys == DOMAIN mk.pathStates
      RECURSIVE Sum(_)
      Sum(K) == IF K = {} THEN 0
                ELSE LET k == CHOOSE k \in K : TRUE
                     IN Len(OrderArrays(mk)[k]) + Sum(K \ {k})
  IN Sum(keys) + Len(mk.heldState.invocationCallOrder)

Increasing(arr) == \A i \in 1 .. Len(arr) - 1 : arr[i] < arr[i + 1]

\* C35: the invocation-order numbers recorded in all mocks are pairwise
\* different, increase along every array and lie below the counter; one
\* more invocation, with those its implementation makes, takes the numbers
\* from the counter on in the order the invocations start.
C35_OrderNumbersUnique ==
  /\ \A m \in DOMAIN mocks :
       /\ Cardinality(OrderNumbers(mocks[m])) = OrderCount(mocks[m])
       /\ \A n \in OrderNumbers(mocks[m]) : n < invocationCallCounter
       /\ \A k \in DOMAIN mocks[m].pathStates : Increasing(OrderArrays(mocks[m])[k])
       /\ Increasing(mocks[m].heldState.invocationCallOrder)
       /\ \A n \in DOMAIN mocks \ {m} :
            OrderNumbers(mocks[m]) \cap OrderNumbers(mocks[n]) = {}
  /\ \A m \in DOMAIN mocks : \A P \in scope.callPaths : \A args \in scope.args :
       LET r == DoApply(mocks[m], P, args, invocationCallCounter)
       IN \A k \in DOMAIN r.log :
            r.log[k].order = invocationCallCounter + Len(r.log) - k

\* The first mock was invoked with an implementation that invokes it again
\* (numbers 1 and 2) and then cleared; the invocation of the second mock made
\* after that has number 3.
C35_Witness ==
  /\ DOMAIN mocks = {1, 2}
  /\ invocationCallCounter = 4
  /\ OrderNumbers(mocks[1]) = {}
  /\ View(mocks[2], <<>>).invocationCallOrder = <<3>>

\* ------------------------------------------------------------------ C40

\* m.P.catch(fn) or m.P.finally(fn) gave r: the Node m.P itself is returned,
\* fn was invoked n times, and every state of the mock is as after reading
\* m.P alone.
PassThrough(mk, P, r, n) ==
  /\ r.ret.kind = "node"
  /\ r.ret.node.id = Reach(mk, P).node.id
  /\ r.fnCalls = n
  /\ r.mk.pathStates = Reach(mk, P).mk.pathStates
  /\ r.mk.heldState = Reach(mk, P).mk.heldState

\* C40: catch(fn) returns the Node it is called on without invoking fn,
\* finally(fn) invokes fn once and returns the Node it is called on, and
\* neither changes a registry or a configured value of the mock.
C40_CatchFinallyPassThrough ==
  \A m \in DOMAIN mocks : \A P \in AllPaths :
    /\ PassThrough(mocks[m], P, DoCatch(mocks[m], P), 0)
    /\ PassThrough(mocks[m], P, DoFinally(mocks[m], P), 1)

\* The same, as long as the root reference was not reset.
C40BeforeReset ==
  \A m \in DOMAIN mocks : \A P \in AllPaths :
    mocks[m].rootRef.own = "map" =>
      /\ PassThrough(mocks[m], P, DoCatch(mocks[m], P), 0)
      /\ PassThrough(mocks[m], P, DoFinally(mocks[m], P), 1)

\* The same, after a reset, for every path below the root and, at the root,
\* for everything but the Node returned.
C40AfterResetBelowRoot ==
  \A m \in DOMAIN mocks : \A P \in AllPaths :
    mocks[m].rootRef.own = "held" =>
      /\ P # <<>> => /\ PassThrough(mocks[m], P, DoCatch(mocks[m], P), 0)
                     /\ PassThrough(mocks[m], P, DoFinally(mocks[m], P), 1)
      /\ DoCatch(mocks[m], P).fnCalls = 0
      /\ DoFinally(mocks[m], P).fnCalls = 1
      /\ DoCatch(mocks[m], P).mk.heldState = mocks[m].heldState
      /\ DoFinally(mocks[m], P).mk.heldState = mocks[m].heldState
      /\ DoCatch(mocks[m], P).mk.pathStates = Reach(mocks[m], P).mk.pathStates
      /\ DoFinally(mocks[m], P).mk.pathStates = Reach(mocks[m], P).mk.pathStates

\* ------------------------------------------------------------------ C36

DottedPaths == AllPaths \cup {<<"a.b">>, <<"">>}

\* Paths P and Q of a mock are apart: they are reached as different Nodes,
\* a setter called on Q leaves the configuration of P as it is, and an
\* invocation of Q leaves the registry of P as it is.
Apart(mk, P, Q, callOrder) ==
  /\ Reach(Reach(mk, P).mk, Q).node.id # Reach(mk, P).node.id
  /\ \A v \in Values \ {Undef} :
       Config(View(DoMockReturnValue(mk, Q, v).mk, P)) = Config(View(mk, P))
  /\ \A args \in scope.args :
       Registry(View(DoApply(mk, Q, args, callOrder).mk, P)) = Registry(View(mk, P))

\* C39: two different paths are apart, whatever the names they are made of.
C39_PathsNeverShare ==
  \A m \in DOMAIN mocks : \A P \in DottedPaths : \A Q \in DottedPaths \ {P} :
    Apart(mocks[m], P, Q, invocationCallCounter)

\* Two different paths of names that have no '.' in them and are not empty,
\* the root among the paths, are apart.
C39PlainNamesAndRoot ==
  \A m \in DOMAIN mocks : \A P \in AllPaths : \A Q \in AllPaths \ {P} :
    Apart(mocks[m], P, Q, invocationCallCounter)

\* m['a.b'] is the Node of m.a.b and m[''] is the root Node of the map.
C39SameKeySameNode ==
  \A m \in DOMAIN mocks :
    /\ Reach(Reach(mocks[m], <<"a", "b">>).mk, <<"a.b">>).node.id
         = Reach(mocks[m], <<"a", "b">>).node.id
    /\ Reach(mocks[m], <<"">>).node.id = mocks[m].proxyCache[""].id

\* ------------------------------------------------------------------ C31

\* The implementation an invocation of m.P would run.
PickedImpl(mk, P) ==
  PickImpl(Deref(Reach(mk, P).mk, UseSyncState(Reach(mk, P).mk, Reach(mk, P).node)))

\* The invocation a continuation was attached in is still in the registry of
\* its state.
StillRecorded(mk, c) ==
  /\ ContinuationRef(mk, c) # NoRef
  /\ \E i \in DOMAIN Deref(mk, ContinuationRef(mk, c)).invocationCallOrder :
       Deref(mk, ContinuationRef(mk, c)).invocationCallOrder[i] = c.order

\* The states of a mock: those of the map and that of the caller's root Node.
StatesOf(mk) == [inMap |-> mk.pathStates, held |-> mk.heldState]

\* C31: settledResults is as long as calls in every state, and the settlement
\* of a promise whose invocation a clear or a reset took out of the registry
\* changes no state.
C31_StaleSettlementWritesNothing ==
  \A m \in DOMAIN mocks :
    /\ \A k \in DOMAIN mocks[m].pathStates :
         Len(mocks[m].pathStates[k].settledResults) = Len(mocks[m].pathStates[k].calls)
    /\ Len(mocks[m].heldState.settledResults) = Len(mocks[m].heldState.calls)
    /\ \A c \in mocks[m].pending : \A settlement \in Settlements :
         ~StillRecorded(mocks[m], c) =>
           StatesOf(Settle(mocks[m], c.promise, settlement)) = StatesOf(mocks[m])

\* The settlement of a promise made before a mockReset() changes no state of
\* the map.
C31ResetKeepsMap ==
  \A m \in DOMAIN mocks : \A c \in mocks[m].pending : \A settlement \in Settlements :
    c.state.gen < mocks[m].gen =>
      Settle(mocks[m], c.promise, settlement).pathStates = mocks[m].pathStates

\* An invocation was cleared away while its promise was pending.
C31ClearedWhilePending ==
  \E m \in DOMAIN mocks : \E c \in mocks[m].pending :
    /\ ContinuationRef(mocks[m], c) # NoRef
    /\ ~StillRecorded(mocks[m], c)

\* ------------------------------------------------------------------ C32

\* The settlement of the promise of continuation c fills the entry of the
\* invocation that made the promise, which was 'incomplete', and changes
\* nothing else.
FillsOwnEntry(mk, c, settlement) ==
  LET s     == Deref(mk, ContinuationRef(mk, c))
      after == Settle(mk, c.promise, settlement)
  IN \E i \in DOMAIN s.invocationCallOrder :
       /\ s.invocationCallOrder[i] = c.order
       /\ i \in DOMAIN s.settledResults
       /\ s.settledResults[i].type = "incomplete"
       /\ after = SetRef([mk EXCEPT !.pending = @ \ {c}], ContinuationRef(mk, c),
                         [s EXCEPT !.settledResults[i] = settlement])

\* The invocation of m.P whose implementation makes a promise returns the
\* promise, with 'return' and 'incomplete' as its entries.
ReturnsPending(mk, P, args, callOrder) ==
  LET r == DoApply(mk, P, args, callOrder)
      s == View(r.mk, P)
  IN /\ r.ret = Returned("value", PromiseNames[callOrder], NoNode)
     /\ s.results[Len(s.results)] = Result("return", PromiseNames[callOrder])
     /\ s.settledResults[Len(s.settledResults)] = Result("incomplete", Undef)
     /\ Len(s.settledResults) = Len(s.calls)

\* C32: an invocation whose implementation returns a pending promise returns
\* it with 'return' and 'incomplete'; the settlement of a pending promise
\* fills the settlement entry of its own invocation and changes nothing else.
C32_SettlementOfSameInvocation ==
  \A m \in DOMAIN mocks :
    /\ \A P \in scope.callPaths : \A args \in scope.args :
         PickedImpl(mocks[m], P).kind = "promise" =>
           ReturnsPending(mocks[m], P, args, invocationCallCounter)
    /\ \A c \in mocks[m].pending : \A settlement \in Settlements :
         ContinuationRef(mocks[m], c) # NoRef => FillsOwnEntry(mocks[m], c, settlement)

\* Two promises of one path are pending, the invocation of the later one
\* after that of the earlier.
C32TwoPending ==
  \E m \in DOMAIN mocks : \E c, d \in mocks[m].pending :
    /\ c.state = d.state /\ c.order < d.order
    /\ StillRecorded(mocks[m], c) /\ StillRecorded(mocks[m], d)

\* ------------------------------------------------------------------ C33

\* What the implementation returns is awaitable: a promise or a thenable.
ReturnsAwaitable(impl) ==
  impl.kind = "promise" \/ (impl.kind = "return" /\ impl.v = Thenable)

\* C33: an invocation whose implementation returns something awaitable
\* records the settlement 'incomplete'.
C33_AwaitableIsIncomplete ==
  \A m \in DOMAIN mocks : \A P \in scope.callPaths : \A args \in scope.args :
    ReturnsAwaitable(PickedImpl(mocks[m], P)) =>
      LET s == View(DoApply(mocks[m], P, args, invocationCallCounter).mk, P)
      IN s.settledResults[Len(s.settledResults)].type = "incomplete"

\* The thenable that is no Promise is recorded as fulfilled at once, with the
\* thenable as the value.
C33ThenableFulfilledAtOnce ==
  \A m \in DOMAIN mocks : \A P \in scope.callPaths : \A args \in scope.args :
    PickedImpl(mocks[m], P) = [kind |-> "return", v |-> Thenable] =>
      LET s == View(DoApply(mocks[m], P, args, invocationCallCounter).mk, P)
      IN s.settledResults[Len(s.settledResults)] = Result("fulfilled", Thenable)

\* ------------------------------------------------------------------ C38

\* The number of invocations made of the callbacks of an await.
Callbacks(j) == j.resolved + j.rejected

\* C38: an await that began has one callback invoked once, or none yet and a
\* job queued whose run brings it further, so that the job queue, which runs
\* every job queued, brings it to the invocation of one callback.
C38_AwaitSettles ==
  \A m \in DOMAIN mocks : \A i \in DOMAIN mocks[m].awaits :
    LET j == mocks[m].awaits[i] IN
    \/ j.phase = "done" /\ Callbacks(j) = 1
    \/ j.phase \in {"then", "settling"} /\ Callbacks(j) = 0
                                        /\ RunJob(mocks[m], i) # mocks[m]

\* No await invokes more than one callback, or one callback twice.
C38AtMostOnce ==
  \A m \in DOMAIN mocks : \A i \in DOMAIN mocks[m].awaits :
    Callbacks(mocks[m].awaits[i]) <= 1

\* The awaits that are left with no callback invoked and no job queued, or
\* with a job that queues itself again, are those that came to a Node by the
\* resolved value of another Node.
C38OnlyThroughNodeValue ==
  \A m \in DOMAIN mocks : \A i \in DOMAIN mocks[m].awaits :
    LET j == mocks[m].awaits[i] IN
    j.linked =>
      \/ j.phase = "done" /\ Callbacks(j) = 1
      \/ j.phase \in {"then", "settling"} /\ Callbacks(j) = 0
                                          /\ RunJob(mocks[m], i) # mocks[m]

\* An await of a Node whose resolved value is a Node with a rejected value is
\* left without callback and without job.
C38Dropped ==
  \E m \in DOMAIN mocks : \E i \in DOMAIN mocks[m].awaits :
    mocks[m].awaits[i].phase = "dropped"

\* An await of a Node whose resolved value is a Node that resolves to itself
\* has a job that queues itself again without end.
C38EndlessJob ==
  \E m \in DOMAIN mocks : \E i \in DOMAIN mocks[m].awaits :
    /\ mocks[m].awaits[i].phase = "then"
    /\ RunJob(mocks[m], i) = mocks[m]

====
